---- MODULE Spec2Model ----
(***************************************************************************)
(* Model of rep-cli: the native-messaging host that keeps the live buffer  *)
(* (cmd/host/main.go) and the files it shares with the query process.      *)
(*                                                                         *)
(* Encodings used throughout:                                              *)
(*   - a request is the positive integer that identifies it; 0 is a nil    *)
(*     *Request;                                                           *)
(*   - a Go string that holds a time stamp ("20060102-150405", RFC3339)    *)
(*     is the integer clock value it was formatted from; "" is 0;          *)
(*   - Version "1.0" is 1, "" is 0;                                        *)
(*   - a file is [exists, bytes]; bytes is the sequence of JSON tokens     *)
(*     that json.MarshalIndent produces, one token per scalar field, per   *)
(*     bracket and per request.                                            *)
(***************************************************************************)
EXTENDS Integers, Sequences, FiniteSets, TLC

\* Capacity of the live buffer.  The program's value is 10000
\* (cmd/host/main.go:23); the model runs the same code with a small capacity.
MaxLiveRequests == 10
\* Number of requests the extension captures and sends one by one.
MaxCaptured == 13
\* How far past the capacity incoming sync lists and start-up files go.
MaxExcess == 2
\* Last value of the wall clock.
MaxTime == 3
\* Number of requests the extension sends one by one while a reader of the
\* snapshot file is followed read by read.
MaxReadCaptured == 3
\* Number of distinct domain names.
NumDomains == 2
\* Number of arguments a user gives to one command.
MaxArgs == 2
\* Number of loads of one store file that are followed while they migrate.
MaxMigrations == 2
\* Number of saving commands (ignore, unignore, primary, unprimary) that are
\* followed on one store file.
MaxSaves == 1
\* Number of sessions `rep save` adds to one store.
MaxSessions == 3
\* Number of requests in the live export that `rep list` filters.
MaxRequests == 3
\* Largest offset and limit given to `rep list`.
MaxPage == 2
\* Number of requests in the working set of `rep chain`.
MaxChain == 3
\* Number of values of one header, and of pairs in one header list.
MaxValues == 2
MaxPairs == 2
\* Captured requests the extension sends while writes can fail.
MaxWrites == 2
\* Length of the live buffer up to which repeated adds are followed.
MaxResent == 3
\* The cap on the endpoints GetDomains lists for one domain (100 in the
\* program), and the number of requests it aggregates.
MaxEndpoints == 2
MaxAggregated == 3
\* Number of bytes on the host's standard input before it ends.
MaxInput == 6
\* The width of the length prefix of a native message: a uint32.
PrefixLen == 4
\* Number of calls of store.Get in one process.
MaxGets == 3
\* Number of requests in one saved session, and of saved sessions in a store
\* whose sessions are read back.
MaxKept == 2
MaxKeptSessions == 2

Nil == 0

VARIABLES
    pc,               \* position of main(): "boot", "loop", "done"
    keepOnDisconnect, \* the --keep flag / REP_KEEP_ON_DISCONNECT
    liveData,         \* the in-memory *LiveData
    file,             \* the snapshot file at dataPath
    msg,              \* the message last read by readMessage
    response,         \* the response last written by writeMessage
    now,              \* time.Now()
    captured,         \* the number of requests the extension has captured
    last,             \* the step main() took last
    prev,             \* liveData and file as they were before that step
    wr,               \* the host's os.WriteFile in progress
    rd,               \* a query process inside os.ReadFile
    seen,             \* the buffers that stood after a whole operation
    store,            \* the *Store of a query process that changes the store
    storeFile,        \* the store file
    cmd,              \* position of that query process
    written,          \* the contents Save has written completely
    call,             \* the command or call a query process made last
    out,              \* what that call returned
    before,           \* the store file as it was before that command
    migrations,       \* how many loads have run the legacy migration
    saves,            \* how many commands have saved the store
    current,          \* buildChainForRequest: the request the walk is at
    visited,          \* buildChainForRequest: the IDs the walk has marked
    chain,            \* buildChainForRequest: chain.Links
    instance,         \* store.Get: the package variable instance (0 is nil)
    onceDone,         \* store.Get: whether once.Do has run its function
    loads,            \* how many times this process has read the store file
    got,              \* what the calls of store.Get returned, in order
    input,            \* the bytes of standard input the host has not read
    steps             \* how many times the loop body of the walk has run

hostVars == <<pc, keepOnDisconnect, liveData, file, msg, response, now, captured,
              last, prev>>
readVars == <<wr, rd, seen>>
storeVars == <<store, storeFile, cmd, written>>
cmdVars == <<call, out, before, migrations, saves>>
chainVars == <<current, visited, chain, steps>>
procVars == <<instance, onceDone, loads, got, input>>
vars == <<hostVars, readVars, storeVars, cmdVars, chainVars, procVars>>

dataPath == "live.json"

----------------------------------------------------------------------------
(* JSON tokens *)

T(k, v) == [k |-> k, v |-> v]

IsScalar(t) == t.k \in {"version", "exported_at", "session_id"}

\* A list of n distinct requests captured before this run (identifiers past
\* the ones the extension sends one by one).
Pattern(n) == [i \in 1..n |-> 100 + i]

NewLiveData == [Version |-> 1, ExportedAt |-> 0, SessionID |-> 0, Requests |-> <<>>]

\* liveData before loadLiveData has run
NilData == [Version |-> 0, ExportedAt |-> 0, SessionID |-> 0, Requests |-> <<>>]

\* json.MarshalIndent(liveData): session_id is omitempty
MarshalIndent(d) ==
    <<T("{", 0), T("version", d.Version), T("exported_at", d.ExportedAt)>>
    \o (IF d.SessionID # 0 THEN <<T("session_id", d.SessionID)>> ELSE <<>>)
    \o <<T("[", 0)>>
    \o [i \in 1..Len(d.Requests) |-> T("req", d.Requests[i])]
    \o <<T("]", 0), T("}", 0)>>

\* The scanner's check of the whole input, made before anything is decoded.
checkValid(b) ==
    /\ Len(b) >= 2
    /\ b[1].k = "{"
    /\ b[Len(b)].k = "}"
    /\ \/ \A i \in 2..(Len(b) - 1) : IsScalar(b[i])
       \/ \E p \in 2..(Len(b) - 2) :
            /\ b[p].k = "["
            /\ b[Len(b) - 1].k = "]"
            /\ \A i \in 2..(p - 1) : IsScalar(b[i])
            /\ \A i \in (p + 1)..(Len(b) - 2) : b[i].k = "req"

MaxOf(S) == CHOOSE x \in S : \A y \in S : y <= x

\* The value decoded for a scalar field: the last well-typed occurrence wins,
\* a field that is absent or ill-typed (v < 0) keeps what the target held.
Field(b, k, old) ==
    LET S == {i \in 1..Len(b) : b[i].k = k /\ b[i].v >= 0}
    IN  IF S = {} THEN old ELSE b[MaxOf(S)].v

HasArray(b) == \E i \in 1..Len(b) : b[i].k = "["

ArrayOf(b) ==
    LET p == CHOOSE i \in 1..Len(b) : b[i].k = "["
    IN  [i \in 1..(Len(b) - 2 - p) |-> b[p + i].v]

\* json.Unmarshal(content, data): a syntax error leaves data untouched; a
\* type error is reported after the other fields have been decoded.
Unmarshal(b, data) ==
    IF ~checkValid(b)
    THEN [data |-> data, err |-> TRUE]
    ELSE [data |-> [Version    |-> Field(b, "version", data.Version),
                    ExportedAt |-> Field(b, "exported_at", data.ExportedAt),
                    SessionID  |-> Field(b, "session_id", data.SessionID),
                    Requests   |-> IF HasArray(b) THEN ArrayOf(b)
                                   ELSE data.Requests],
          err  |-> \E i \in 1..Len(b) : b[i].v < 0]

----------------------------------------------------------------------------
(* The file system *)

NoFile == [exists |-> FALSE, bytes |-> <<>>]

\* os.WriteFile(dataPath, content, 0644), from open to close
WriteFile(content) == [exists |-> TRUE, bytes |-> content]

\* The first half of os.WriteFile: OpenFile(O_WRONLY|O_CREATE|O_TRUNC)
OpenTrunc == [exists |-> TRUE, bytes |-> <<>>]

Min(a, b) == IF a <= b THEN a ELSE b

\* os.ReadFile after os.Open: the buffer is sized from Stat, one byte more
ReadFileOpen(f, path) ==
    [pc |-> "reading", data |-> <<>>, err |-> FALSE,
     path |-> path, cap |-> Len(f.bytes) + 1]

\* One turn of the read loop of os.ReadFile: f.Read fills the free part of
\* the buffer from the current offset; at end of file the loop returns;
\* a full buffer is grown by append.
ReadFileStep(r, f) ==
    LET off == Len(r.data)
        n   == Min(r.cap - off, Len(f.bytes) - off)
    IN  IF n <= 0
        THEN [r EXCEPT !.pc = "done"]
        ELSE [r EXCEPT !.data = r.data \o SubSeq(f.bytes, off + 1, off + n),
                       !.cap  = IF off + n >= r.cap THEN 2 * r.cap ELSE r.cap]

----------------------------------------------------------------------------
(* cmd/host/main.go *)

generateSessionID(t) == t

\* loadLiveData returning the struct json.Unmarshal was decoding into
loadLiveData_KeepsPartial(f) ==
    IF ~f.exists THEN NewLiveData
    ELSE Unmarshal(f.bytes, NewLiveData).data

loadLiveData(f) ==
    IF ~f.exists THEN NewLiveData
    ELSE LET r == Unmarshal(f.bytes, NewLiveData)
         IN  IF r.err THEN NewLiveData ELSE r.data

\* saveLiveDataUnlocked stamps ExportedAt and writes the whole struct
saveLiveDataUnlocked(d, t) == [d EXCEPT !.ExportedAt = t]

Resp(success, action, count, path, error) ==
    [path |-> path, success |-> success, action |-> action,
     count |-> count, error |-> error]

NoResponse == Resp(FALSE, "", -1, "", "")
UnknownAction == Resp(FALSE, "", -1, "", "unknown action")

removeCount == MaxLiveRequests \div 10

\* handleAdd rotating only once the buffer is past the capacity
handleAdd_RotateAbove(d, m, t) ==
    LET kept == IF Len(d.Requests) > MaxLiveRequests
                THEN SubSeq(d.Requests, removeCount + 1, Len(d.Requests))
                ELSE d.Requests
        reqs == Append(kept, m.Request)
    IN  [response |-> Resp(TRUE, "add", Len(reqs), "", ""),
         data     |-> [d EXCEPT !.Requests = reqs, !.ExportedAt = t],
         save     |-> TRUE]

\* case "add", msg.Request != nil
handleAdd(d, m, t) ==
    LET kept == IF Len(d.Requests) >= MaxLiveRequests
                THEN SubSeq(d.Requests, removeCount + 1, Len(d.Requests))
                ELSE d.Requests
        reqs == Append(kept, m.Request)
    IN  [response |-> Resp(TRUE, "add", Len(reqs), "", ""),
         data     |-> saveLiveDataUnlocked([d EXCEPT !.Requests = reqs], t),
         save     |-> TRUE]

\* handleSync truncating from the back
handleSync_KeepsFirst(d, m, t) ==
    LET n    == Len(m.Requests)
        reqs == IF n > MaxLiveRequests
                THEN SubSeq(m.Requests, 1, MaxLiveRequests)
                ELSE m.Requests
    IN  [response |-> Resp(TRUE, "sync", Len(reqs), "", ""),
         data     |-> [d EXCEPT !.Requests = reqs, !.ExportedAt = t],
         save     |-> TRUE]

\* case "sync", msg.Requests != nil
handleSync(d, m, t) ==
    LET n    == Len(m.Requests)
        reqs == IF n > MaxLiveRequests
                THEN SubSeq(m.Requests, n - MaxLiveRequests + 1, n)
                ELSE m.Requests
    IN  [response |-> Resp(TRUE, "sync", Len(reqs), "", ""),
         data     |-> saveLiveDataUnlocked([d EXCEPT !.Requests = reqs], t),
         save     |-> TRUE]

\* case "clear"
handleClear(d, t) ==
    [response |-> Resp(TRUE, "clear", -1, "", ""),
     data     |-> saveLiveDataUnlocked([d EXCEPT !.Requests = <<>>], t),
     save     |-> TRUE]

\* handlePing persisting the buffer like the other cases
handlePing_Saves(d) ==
    [response |-> Resp(TRUE, "pong", Len(d.Requests), dataPath, ""),
     data     |-> d,
     save     |-> TRUE]

\* case "ping"
handlePing(d) ==
    [response |-> Resp(TRUE, "pong", Len(d.Requests), dataPath, ""),
     data     |-> d,
     save     |-> FALSE]

\* A handleMessage whose sync without a request list empties the buffer
handleMessage_SyncNil(d, m, t) ==
    IF m.Action = "add" /\ m.Request # Nil THEN handleAdd(d, m, t)
    ELSE IF m.Action = "sync" THEN handleSync(d, m, t)
    ELSE IF m.Action = "clear" THEN handleClear(d, t)
    ELSE IF m.Action = "ping" THEN handlePing(d)
    ELSE [response |-> UnknownAction, data |-> d, save |-> FALSE]

handleMessage(d, m, t) ==
    IF m.Action = "add" /\ m.Request # Nil THEN handleAdd(d, m, t)
    ELSE IF m.Action = "sync" /\ m.HasRequests THEN handleSync(d, m, t)
    ELSE IF m.Action = "clear" THEN handleClear(d, t)
    ELSE IF m.Action = "ping" THEN handlePing(d)
    ELSE [response |-> UnknownAction, data |-> d, save |-> FALSE]

\* clearLiveData: empties the buffer, unbinds the session and writes the file
clearLiveData(d, t) ==
    [d EXCEPT !.Requests = <<>>, !.ExportedAt = t, !.SessionID = 0]

\* bindSession generating an identifier at every start
bindSession_Always(d, t) == [d EXCEPT !.SessionID = generateSessionID(t)]

\* main(), lines 91-94: a session identifier is generated when starting fresh
bindSession(d, t) ==
    IF d.SessionID = 0 \/ Len(d.Requests) = 0
    THEN [d EXCEPT !.SessionID = generateSessionID(t)]
    ELSE d

\* onDisconnect clearing whatever the flag says
onDisconnect_IgnoresKeep(d, f, keep, t) ==
    [file |-> WriteFile(MarshalIndent(clearLiveData(d, t))),
     data |-> clearLiveData(d, t)]

\* main(), lines 100-105: what end-of-stream does to the buffer and the file
onDisconnect(d, f, keep, t) ==
    IF ~keep
    THEN [file |-> WriteFile(MarshalIndent(clearLiveData(d, t))),
          data |-> clearLiveData(d, t)]
    ELSE [file |-> f, data |-> d]

----------------------------------------------------------------------------
(* Inputs *)

Msg(action, request, has, requests) ==
    [Requests |-> requests, Request |-> request,
     Action |-> action, HasRequests |-> has]

NoMsg == Msg("", Nil, FALSE, <<>>)

\* The lists a sync message carries: the short ones, and lists around and
\* past the capacity.
SyncLists ==
    {<<>>, Pattern(1)}
    \cup {Pattern(MaxLiveRequests + k) : k \in 0..MaxExcess}

\* The time stamp of an earlier run of the host, before this clock started.
OldTime == 1
StartTime == 2

FileOf(sid, reqs) ==
    WriteFile(MarshalIndent([Version |-> 1, ExportedAt |-> OldTime,
                             SessionID |-> sid, Requests |-> reqs]))

\* Buffers a snapshot file may hold when the host starts.
InitBuffers ==
    {<<>>, Pattern(1), Pattern(MaxLiveRequests - 1)}
    \cup {Pattern(MaxLiveRequests + k) : k \in 0..MaxExcess}

\* A file cut short (a syntax error), and a file whose version is not a
\* string (a type error, reported after the other fields were decoded).
Truncated(f) == [f EXCEPT !.bytes = SubSeq(f.bytes, 1, Len(f.bytes) - 1)]
IllTyped(f) == [f EXCEPT !.bytes[2] = T("version", -1)]

InitFiles ==
    {NoFile, WriteFile(<<>>)}
    \cup {FileOf(sid, q) : sid \in {0, OldTime}, q \in InitBuffers}
    \cup {Truncated(FileOf(OldTime, Pattern(1))),
          IllTyped(FileOf(OldTime, Pattern(1)))}

----------------------------------------------------------------------------
(* main() *)

Snapshot == [file |-> file, data |-> liveData]

\* No write in progress, no reader, no query process.
NoWrite == [pc |-> "", response |-> NoResponse, content |-> <<>>, busy |-> FALSE]
NoRead == [pc |-> "idle", data |-> <<>>, err |-> FALSE, path |-> "", cap |-> 0]
NilStore == [Requests |-> <<>>, Sessions |-> <<>>, IgnoredDomains |-> {},
             PrimaryDomains |-> {}, LastImport |-> 0]
\* No query command has run.
NoCall == <<"none">>

NoCommand ==
    /\ call = NoCall
    /\ out = Nil
    /\ before = [file |-> NoFile, store |-> NilStore]
    /\ migrations = 0
    /\ saves = 0
    /\ current = Nil
    /\ visited = {}
    /\ chain = <<>>
    /\ steps = 0
    /\ instance = Nil
    /\ onceDone = FALSE
    /\ loads = 0
    /\ got = <<>>

CmdQuiet ==
    /\ NoCommand
    /\ input = <<>>

HostInit ==
    /\ pc = "boot"
    /\ keepOnDisconnect \in BOOLEAN
    /\ liveData = NilData
    /\ msg = NoMsg
    /\ response = NoResponse
    /\ now = StartTime
    /\ last = "boot"
    /\ captured = 0
    /\ prev = Snapshot

Quiet ==
    /\ wr = NoWrite
    /\ rd = NoRead
    /\ store = NilStore
    /\ storeFile = NoFile
    /\ cmd = "none"
    /\ written = {}
    /\ CmdQuiet

Init ==
    /\ file \in InitFiles
    /\ HostInit
    /\ Quiet
    /\ seen = {}

\* main(), lines 85-94: load the snapshot, bind a session identifier
Start ==
    /\ pc = "boot"
    /\ liveData' = bindSession(loadLiveData(file), now)
    /\ pc' = "loop"
    /\ last' = "start"
    /\ prev' = Snapshot
    /\ UNCHANGED <<keepOnDisconnect, file, msg, response, now, captured>>
    /\ UNCHANGED <<readVars, storeVars, cmdVars, chainVars, procVars>>

\* One turn of the loop: readMessage, handleMessage, writeMessage.
Deliver(m) ==
    /\ pc = "loop"
    /\ LET r == handleMessage(liveData, m, now)
       IN  /\ liveData' = r.data
           /\ file' = IF r.save THEN WriteFile(MarshalIndent(r.data)) ELSE file
           /\ response' = r.response
    /\ msg' = m
    /\ captured' = IF m.Request # Nil THEN m.Request ELSE captured
    /\ last' = "msg"
    /\ prev' = Snapshot
    /\ UNCHANGED <<pc, keepOnDisconnect, now>>
    /\ UNCHANGED <<readVars, storeVars, cmdVars, chainVars, procVars>>

\* The extension sends the request it captured, or an add without a request.
RecvAdd ==
    \/ /\ captured < MaxCaptured
       /\ Deliver(Msg("add", captured + 1, FALSE, <<>>))
    \/ Deliver(Msg("add", Nil, FALSE, <<>>))

RecvSync ==
    \/ \E q \in SyncLists : Deliver(Msg("sync", Nil, TRUE, q))
    \/ Deliver(Msg("sync", Nil, FALSE, <<>>))

RecvClear == Deliver(Msg("clear", Nil, FALSE, <<>>))

RecvPing == Deliver(Msg("ping", Nil, FALSE, <<>>))

RecvOther == Deliver(Msg("other", Nil, FALSE, <<>>))

\* readMessage returns io.EOF: the extension disconnected
Disconnect ==
    /\ pc = "loop"
    /\ LET r == onDisconnect(liveData, file, keepOnDisconnect, now)
       IN  /\ liveData' = r.data
           /\ file' = r.file
    /\ pc' = "done"
    /\ last' = "eof"
    /\ prev' = Snapshot
    /\ UNCHANGED <<keepOnDisconnect, msg, response, now, captured>>
    /\ UNCHANGED <<readVars, storeVars, cmdVars, chainVars, procVars>>

\* The browser starts the host again: a new process, nothing in memory.
Restart ==
    /\ pc = "done"
    /\ pc' = "boot"
    /\ keepOnDisconnect' \in BOOLEAN
    /\ liveData' = NilData
    /\ msg' = NoMsg
    /\ response' = NoResponse
    /\ last' = "boot"
    /\ prev' = Snapshot
    /\ UNCHANGED <<file, now, captured>>
    /\ UNCHANGED <<readVars, storeVars, cmdVars, chainVars, procVars>>

Tick ==
    /\ now < MaxTime
    /\ now' = now + 1
    /\ UNCHANGED <<pc, keepOnDisconnect, liveData, file, msg, response, captured,
                   last, prev>>
    /\ UNCHANGED <<readVars, storeVars, cmdVars, chainVars, procVars>>

Next ==
    \/ Start
    \/ RecvAdd
    \/ RecvSync
    \/ RecvClear
    \/ RecvPing
    \/ RecvOther
    \/ Disconnect
    \/ Restart
    \/ Tick

Spec == Init /\ [][Next]_vars

----------------------------------------------------------------------------
(* The snapshot file between the host and a query process: the host's      *)
(* os.WriteFile and the query process's os.ReadFile, system call by system *)
(* call.  The handlers are the ones above.                                 *)

\* loadLiveExport: os.ReadFile, then sonic.Unmarshal into a store.Export,
\* which has no session_id field
loadLiveExport(bytes) ==
    LET r == Unmarshal(bytes, NewLiveData)
    IN  [Version    |-> r.data.Version,
         ExportedAt |-> r.data.ExportedAt,
         Requests   |-> r.data.Requests,
         err        |-> r.err]

\* The file an earlier run left holds that run's buffer as a whole.
ReadInit ==
    /\ file \in {NoFile, FileOf(OldTime, <<>>)}
    /\ HostInit
    /\ Quiet
    /\ seen = {loadLiveExport(file.bytes).Requests}

\* Messages the extension sends while a reader is followed.
ReadMsgs ==
    {Msg("add", captured + 1, FALSE, <<>>) : x \in {y \in {1} : captured < MaxReadCaptured}}
    \cup {Msg("sync", Nil, TRUE, Pattern(MaxReadCaptured + 1))}
    \cup {Msg("clear", Nil, FALSE, <<>>), Msg("ping", Nil, FALSE, <<>>)}

\* main() up to the loop; the buffer it loaded stands as a whole.
ReadStart ==
    /\ pc = "boot"
    /\ liveData' = bindSession(loadLiveData(file), now)
    /\ seen' = seen \cup {liveData'.Requests}
    /\ pc' = "loop"
    /\ UNCHANGED <<keepOnDisconnect, file, msg, response, now, captured, last, prev>>
    /\ UNCHANGED <<wr, rd, storeVars, cmdVars, chainVars, procVars>>

\* handleMessage up to the open of os.WriteFile in saveLiveDataUnlocked; a
\* message that saves nothing is handled in one step.
HandleBegin ==
    \E m \in ReadMsgs :
        /\ pc = "loop"
        /\ ~wr.busy
        /\ LET r == handleMessage(liveData, m, now)
           IN  /\ liveData' = r.data
               /\ IF r.save
                  THEN /\ file' = OpenTrunc
                       /\ wr' = [pc |-> "loop", response |-> r.response,
                                 content |-> MarshalIndent(r.data),
                                 busy |-> TRUE]
                       /\ UNCHANGED response
                  ELSE /\ response' = r.response
                       /\ UNCHANGED <<file, wr>>
        /\ msg' = m
        /\ captured' = IF m.Request # Nil THEN m.Request ELSE captured
        /\ UNCHANGED <<pc, keepOnDisconnect, now, last, prev, rd, seen, storeVars, cmdVars, chainVars, procVars>>

\* end-of-stream, up to the open of os.WriteFile in clearLiveData
DisconnectBegin ==
    /\ pc = "loop"
    /\ ~wr.busy
    /\ IF ~keepOnDisconnect
       THEN /\ liveData' = clearLiveData(liveData, now)
            /\ file' = OpenTrunc
            /\ wr' = [pc |-> "done", response |-> response,
                      content |-> MarshalIndent(liveData'), busy |-> TRUE]
            /\ UNCHANGED pc
       ELSE /\ pc' = "done"
            /\ UNCHANGED <<liveData, file, wr>>
    /\ UNCHANGED <<keepOnDisconnect, msg, response, now, captured, last, prev>>
    /\ UNCHANGED <<rd, seen, storeVars, cmdVars, chainVars, procVars>>

\* The write and the close of os.WriteFile, then the response; the
\* operation is whole and so is the buffer.
WriteFinish ==
    /\ wr.busy
    /\ file' = WriteFile(wr.content)
    /\ response' = wr.response
    /\ pc' = wr.pc
    /\ wr' = NoWrite
    /\ seen' = seen \cup {liveData.Requests}
    /\ UNCHANGED <<keepOnDisconnect, liveData, msg, now, captured, last, prev>>
    /\ UNCHANGED <<rd, storeVars, cmdVars, chainVars, procVars>>

\* A query process calls loadLiveExport: os.Open and Stat
LiveReadOpen ==
    /\ rd.pc = "idle"
    /\ rd' = IF file.exists THEN ReadFileOpen(file, "live")
             ELSE [NoRead EXCEPT !.pc = "done", !.path = "live", !.err = TRUE]
    /\ UNCHANGED <<hostVars, wr, seen, storeVars, cmdVars, chainVars, procVars>>

LiveRead ==
    /\ rd.pc = "reading"
    /\ rd.path = "live"
    /\ rd' = ReadFileStep(rd, file)
    /\ UNCHANGED <<hostVars, wr, seen, storeVars, cmdVars, chainVars, procVars>>

\* The query process ends; the next one may start.
ReadExit ==
    /\ rd.pc = "done"
    /\ rd' = NoRead
    /\ UNCHANGED <<hostVars, wr, seen, storeVars, cmdVars, chainVars, procVars>>

ReadNext ==
    \/ ReadStart
    \/ HandleBegin
    \/ DisconnectBegin
    \/ WriteFinish
    \/ LiveReadOpen
    \/ LiveRead
    \/ ReadExit

SpecRead == ReadInit /\ [][ReadNext]_vars

\* The snapshot a query process got from loadLiveExport.
Got == loadLiveExport(rd.data)

\* C9: a reader of the snapshot file never observes a torn state: every
\* snapshot it obtains is the complete buffer as it stood before or after a
\* whole add, sync or clear.
C9_NoTornSnapshot ==
    (rd.pc = "done" /\ rd.path = "live" /\ ~rd.err /\ ~Got.err)
        => Got.Requests \in seen

----------------------------------------------------------------------------
(* internal/store/store.go: the store file.  A domain is a positive        *)
(* integer, a session identifier and a note are integers (0 is ""), and    *)
(* the JSON of a store is one token per bracket, per session field, per    *)
(* request and per map entry.                                              *)

Domains == 1..NumDomains

\* The argument lists of `rep ignore` and `rep primary`: a name may repeat.
RECURSIVE ListsOf(_, _)
ListsOf(S, n) ==
    IF n = 0 THEN {<<>>}
    ELSE ListsOf(S, n - 1)
         \cup {Append(l, x) : l \in {m \in ListsOf(S, n - 1) : Len(m) = n - 1},
                              x \in S}

DomainLists == ListsOf(Domains, MaxArgs) \ {<<>>}

NewStore == [Requests |-> <<>>, Sessions |-> <<>>, IgnoredDomains |-> {},
             PrimaryDomains |-> {}, LastImport |-> 0]

Values(toks) == [i \in 1..Len(toks) |-> toks[i].v]

RECURSIVE SessionTokens(_)
SessionTokens(ss) ==
    IF ss = <<>> THEN <<>>
    ELSE LET x == Head(ss)
         IN  <<T("session", x.ID), T("timestamp", x.Timestamp)>>
             \o (IF x.Note # 0 THEN <<T("note", x.Note)>> ELSE <<>>)
             \o [i \in 1..Len(x.Requests) |-> T("sreq", x.Requests[i])]
             \o SessionTokens(Tail(ss))

\* The entries of a map[string]bool, here in ascending order of the keys.
RECURSIVE MapTokens(_, _)
MapTokens(k, S) ==
    IF S = {} THEN <<>>
    ELSE LET m == CHOOSE x \in S : \A y \in S : x <= y
         IN  <<T(k, m)>> \o MapTokens(k, S \ {m})

\* sonic.MarshalIndent(s): requests and last_import are omitempty
StoreMarshalIndent(s) ==
    <<T("{", 0), T("sessions[", 0)>>
    \o SessionTokens(s.Sessions)
    \o <<T("]", 0)>>
    \o MapTokens("ignored", s.IgnoredDomains)
    \o MapTokens("primary", s.PrimaryDomains)
    \o (IF Len(s.Requests) > 0
        THEN <<T("requests[", 0)>>
             \o [i \in 1..Len(s.Requests) |-> T("req", s.Requests[i])]
             \o <<T("]", 0)>>
        ELSE <<>>)
    \o (IF s.LastImport # 0 THEN <<T("last_import", s.LastImport)>> ELSE <<>>)
    \o <<T("}", 0)>>

\* The decoder's walk over the tokens of a store: where it stands after
\* token i, having stood at st before it; "bad" is a syntax error.
StoreStep(st, t, isLast) ==
    IF st = "start" THEN (IF t.k = "{" THEN "top" ELSE "bad")
    ELSE IF st = "top" THEN
        (IF t.k = "sessions[" THEN "sessions"
         ELSE IF t.k = "requests[" THEN "legacy"
         ELSE IF t.k \in {"ignored", "primary", "last_import"} THEN "top"
         ELSE IF t.k = "}" /\ isLast THEN "end"
         ELSE "bad")
    ELSE IF st = "sessions" THEN
        (IF t.k = "session" THEN "session"
         ELSE IF t.k = "]" THEN "top"
         ELSE "bad")
    ELSE IF st = "session" THEN
        (IF t.k \in {"session", "timestamp", "note", "sreq"} THEN "session"
         ELSE IF t.k = "]" THEN "top"
         ELSE "bad")
    ELSE IF st = "legacy" THEN
        (IF t.k = "req" THEN "legacy"
         ELSE IF t.k = "]" THEN "top"
         ELSE "bad")
    ELSE "bad"

RECURSIVE StoreScan(_, _, _)
StoreScan(b, i, st) ==
    IF i > Len(b) THEN st
    ELSE StoreScan(b, i + 1, StoreStep(st, b[i], i = Len(b)))

StoreCheckValid(b) == StoreScan(b, 1, "start") = "end"

IsSReq(t) == t.k = "sreq"
IsReq(t) == t.k = "req"

\* The sessions of a well-formed token list, in their order.
DecodeSessions(b) ==
    LET P     == {i \in 1..Len(b) : b[i].k = "session"}
        open  == CHOOSE i \in 1..Len(b) : b[i].k = "sessions["
        close == CHOOSE i \in 1..Len(b) :
                    /\ i > open
                    /\ b[i].k = "]"
                    /\ \A j \in (open + 1)..(i - 1) : b[j].k # "]"
        nth(j) == CHOOSE q \in P : Cardinality({x \in P : x < q}) = j - 1
        seg(j) == SubSeq(b, nth(j) + 1,
                         (IF j < Cardinality(P) THEN nth(j + 1) ELSE close) - 1)
    IN  [j \in 1..Cardinality(P) |->
            [Requests  |-> Values(SelectSeq(seg(j), IsSReq)),
             ID        |-> b[nth(j)].v,
             Timestamp |-> Field(seg(j), "timestamp", 0),
             Note      |-> Field(seg(j), "note", 0)]]

\* sonic.Unmarshal(data, store)
StoreUnmarshal(b, s) ==
    IF ~StoreCheckValid(b)
    THEN [store |-> s, err |-> TRUE]
    ELSE [store |-> [Requests |->
                        IF \E i \in 1..Len(b) : b[i].k = "requests["
                        THEN Values(SelectSeq(b, IsReq)) ELSE s.Requests,
                     Sessions |->
                        IF \E i \in 1..Len(b) : b[i].k = "sessions["
                        THEN DecodeSessions(b) ELSE s.Sessions,
                     IgnoredDomains |-> s.IgnoredDomains \cup
                        {b[i].v : i \in {j \in 1..Len(b) : b[j].k = "ignored"}},
                     PrimaryDomains |-> s.PrimaryDomains \cup
                        {b[i].v : i \in {j \in 1..Len(b) : b[j].k = "primary"}},
                     LastImport |-> Field(b, "last_import", s.LastImport)],
          err   |-> FALSE]

\* "migrated-" + today's date, and the note of the migration session
MigratedID(t) == 1000 + t
AutoMigrated == 99

\* The migration leaving the legacy fields in place
Migrate_KeepsLegacy(s, t) ==
    IF Len(s.Requests) > 0 /\ Len(s.Sessions) = 0
    THEN [s EXCEPT !.Sessions = <<[Requests |-> s.Requests,
                                   ID |-> MigratedID(t), Timestamp |-> t,
                                   Note |-> AutoMigrated]>>]
    ELSE s

\* The migration running whatever sessions the file holds
Migrate_WithSessions(s, t) ==
    IF Len(s.Requests) > 0
    THEN [s EXCEPT !.Sessions = Append(@, [Requests |-> s.Requests,
                                           ID |-> MigratedID(t),
                                           Timestamp |-> t,
                                           Note |-> AutoMigrated]),
                   !.Requests = <<>>,
                   !.LastImport = 0]
    ELSE s

\* Load, lines 157-172: legacy requests become one session
Migrate(s, t) ==
    IF Len(s.Requests) > 0 /\ Len(s.Sessions) = 0
    THEN [s EXCEPT !.Sessions = <<[Requests |-> s.Requests,
                                   ID |-> MigratedID(t), Timestamp |-> t,
                                   Note |-> AutoMigrated]>>,
                   !.Requests = <<>>,
                   !.LastImport = 0]
    ELSE s

\* Load starting afresh on a file that does not parse
Load_StartsFresh(f, t) ==
    IF ~f.exists THEN [store |-> NewStore, err |-> FALSE]
    ELSE LET r == StoreUnmarshal(f.bytes, NewStore)
         IN  IF r.err THEN [store |-> NewStore, err |-> FALSE]
             ELSE [store |-> Migrate(r.store, t), err |-> FALSE]

\* Load, lines 126-182
Load(f, t) ==
    IF ~f.exists THEN [store |-> NewStore, err |-> FALSE]
    ELSE LET r == StoreUnmarshal(f.bytes, NewStore)
         IN  IF r.err THEN [store |-> NilStore, err |-> TRUE]
             ELSE [store |-> Migrate(r.store, t), err |-> FALSE]

\* Store.Ignore, Unignore, SetPrimary and UnsetPrimary: one turn of the loop
\* over the arguments per call; the store after the call and the count.
\* Store.Ignore counting every argument
RECURSIVE Ignore_CountsAll(_, _)
Ignore_CountsAll(s, domains) ==
    IF domains = <<>> THEN [store |-> s, count |-> 0]
    ELSE LET domain == Head(domains)
             r      == Ignore_CountsAll(
                           [s EXCEPT !.IgnoredDomains = @ \cup {domain}],
                           Tail(domains))
         IN  [store |-> r.store, count |-> r.count + 1]

RECURSIVE Ignore(_, _)
Ignore(s, domains) ==
    IF domains = <<>> THEN [store |-> s, count |-> 0]
    ELSE LET domain == Head(domains)
             fresh  == domain \notin s.IgnoredDomains
             r      == Ignore(IF fresh
                              THEN [s EXCEPT !.IgnoredDomains = @ \cup {domain}]
                              ELSE s,
                              Tail(domains))
         IN  [store |-> r.store, count |-> r.count + (IF fresh THEN 1 ELSE 0)]

RECURSIVE Unignore(_, _)
Unignore(s, domains) ==
    IF domains = <<>> THEN [store |-> s, count |-> 0]
    ELSE LET domain == Head(domains)
             held   == domain \in s.IgnoredDomains
             r      == Unignore(IF held
                                THEN [s EXCEPT !.IgnoredDomains = @ \ {domain}]
                                ELSE s,
                                Tail(domains))
         IN  [store |-> r.store, count |-> r.count + (IF held THEN 1 ELSE 0)]

RECURSIVE SetPrimary(_, _)
SetPrimary(s, domains) ==
    IF domains = <<>> THEN [store |-> s, count |-> 0]
    ELSE LET domain == Head(domains)
             fresh  == domain \notin s.PrimaryDomains
             r      == SetPrimary(IF fresh
                                  THEN [s EXCEPT !.PrimaryDomains = @ \cup {domain}]
                                  ELSE s,
                                  Tail(domains))
         IN  [store |-> r.store, count |-> r.count + (IF fresh THEN 1 ELSE 0)]

RECURSIVE UnsetPrimary(_, _)
UnsetPrimary(s, domains) ==
    IF domains = <<>> THEN [store |-> s, count |-> 0]
    ELSE LET domain == Head(domains)
             held   == domain \in s.PrimaryDomains
             r      == UnsetPrimary(IF held
                                    THEN [s EXCEPT !.PrimaryDomains = @ \ {domain}]
                                    ELSE s,
                                    Tail(domains))
         IN  [store |-> r.store, count |-> r.count + (IF held THEN 1 ELSE 0)]

\* Store files a query process may find: none, one with a session and an
\* ignored domain, and one in the legacy format.
InitStores ==
    {[NewStore EXCEPT !.Sessions = <<[Requests |-> Pattern(2), ID |-> OldTime,
                                      Timestamp |-> OldTime, Note |-> 0]>>,
                      !.IgnoredDomains = {1}],
     [NewStore EXCEPT !.Requests = Pattern(2), !.LastImport = OldTime]}

InitStoreFiles == {NoFile} \cup {WriteFile(StoreMarshalIndent(s)) : s \in InitStores}

StoreInit ==
    /\ file = NoFile
    /\ HostInit
    /\ wr = NoWrite
    /\ rd = NoRead
    /\ seen = {}
    /\ store = NilStore
    /\ storeFile \in InitStoreFiles
    /\ cmd = "none"
    /\ written = IF storeFile.exists THEN {storeFile.bytes} ELSE {}
    /\ CmdQuiet

\* `rep ignore d...`: store.Get, Store.Ignore, then Store.Save up to the
\* open of os.WriteFile
IgnoreBegin ==
    \E ds \in DomainLists :
        /\ cmd = "none"
        /\ ~Load(storeFile, now).err
        /\ store' = Ignore(Load(storeFile, now).store, ds).store
        /\ storeFile' = OpenTrunc
        /\ cmd' = "saving"
        /\ UNCHANGED <<hostVars, readVars, written, cmdVars, chainVars, procVars>>

\* `rep ignore --remove d...`: the same with Store.Unignore
UnignoreBegin ==
    \E ds \in DomainLists :
        /\ cmd = "none"
        /\ ~Load(storeFile, now).err
        /\ store' = Unignore(Load(storeFile, now).store, ds).store
        /\ storeFile' = OpenTrunc
        /\ cmd' = "saving"
        /\ UNCHANGED <<hostVars, readVars, written, cmdVars, chainVars, procVars>>

\* Store.Save: the write and the close of os.WriteFile; the command ends
SaveFinish ==
    /\ cmd = "saving"
    /\ storeFile' = WriteFile(StoreMarshalIndent(store))
    /\ written' = written \cup {StoreMarshalIndent(store)}
    /\ store' = NilStore
    /\ cmd' = "none"
    /\ UNCHANGED <<hostVars, readVars, cmdVars, chainVars, procVars>>

\* Another query process calls Load: os.Open and Stat
StoreReadOpen ==
    /\ rd.pc = "idle"
    /\ rd' = IF storeFile.exists THEN ReadFileOpen(storeFile, "store")
             ELSE [NoRead EXCEPT !.pc = "done", !.path = "store", !.err = TRUE]
    /\ UNCHANGED <<hostVars, wr, seen, storeVars, cmdVars, chainVars, procVars>>

StoreRead ==
    /\ rd.pc = "reading"
    /\ rd.path = "store"
    /\ rd' = ReadFileStep(rd, storeFile)
    /\ UNCHANGED <<hostVars, wr, seen, storeVars, cmdVars, chainVars, procVars>>

StoreNext ==
    \/ IgnoreBegin
    \/ UnignoreBegin
    \/ SaveFinish
    \/ StoreReadOpen
    \/ StoreRead
    \/ ReadExit

SpecStore == StoreInit /\ [][StoreNext]_vars

\* C10: while Save writes the store file, a reader of the file reads the
\* content of the file as it was before the Save or as it is after it,
\* never a truncated or invalid one.
C10_SaveAtomic ==
    (rd.pc = "done" /\ rd.path = "store" /\ ~rd.err)
        => (rd.data \in written /\ StoreCheckValid(rd.data))

----------------------------------------------------------------------------

TypeOK ==
    /\ pc \in {"boot", "loop", "done"}
    /\ keepOnDisconnect \in BOOLEAN
    /\ now \in StartTime..MaxTime
    /\ file.exists \in BOOLEAN

----------------------------------------------------------------------------
(* The live buffer: claims C1 - C8 *)

\* What a reader of the snapshot file decodes (err when it gets no snapshot).
Persisted == Unmarshal(file.bytes, NewLiveData)

\* What loadLiveData read when main() last started.
Loaded == Unmarshal(prev.file.bytes, NewLiveData)

AddHandled == last = "msg" /\ msg.Action = "add" /\ msg.Request # Nil
SyncHandled == last = "msg" /\ msg.Action = "sync" /\ msg.HasRequests
ClearHandled == last = "msg" /\ msg.Action = "clear"
PingHandled == last = "msg" /\ msg.Action = "ping"

\* C1: in every state the host reaches, from whatever snapshot it loaded, the
\* live buffer holds at most MaxLiveRequests requests.
C1_BufferWithinCapacity ==
    pc \in {"loop", "done"} => Len(liveData.Requests) <= MaxLiveRequests

\* C2: add on a buffer of length >= capacity removes exactly capacity/10 of
\* the oldest entries, keeps the others in order and puts the new request
\* last; add on a shorter buffer removes nothing and only appends.
C2_AddRotates ==
    AddHandled =>
        LET old == prev.data.Requests
            new == liveData.Requests
            cut == IF Len(old) >= MaxLiveRequests
                   THEN MaxLiveRequests \div 10 ELSE 0
        IN  /\ Len(new) = Len(old) - cut + 1
            /\ \A i \in 1..(Len(old) - cut) : new[i] = old[i + cut]
            /\ new[Len(new)] = msg.Request

C2_Witness ==
    /\ AddHandled
    /\ Len(prev.data.Requests) >= MaxLiveRequests
    /\ liveData.Requests[1] # prev.data.Requests[1]

\* C3: after sync the buffer is the incoming list when that is at most
\* capacity long, and otherwise its last capacity elements in their order;
\* nothing of the previous buffer survives.
C3_SyncReplaces ==
    SyncHandled =>
        LET inc == msg.Requests
            n   == Len(inc)
            new == liveData.Requests
        IN  IF n <= MaxLiveRequests
            THEN new = inc
            ELSE /\ Len(new) = MaxLiveRequests
                 /\ \A i \in 1..MaxLiveRequests :
                        new[i] = inc[n - MaxLiveRequests + i]

C3_Witness ==
    /\ SyncHandled
    /\ Len(msg.Requests) > MaxLiveRequests
    /\ Len(prev.data.Requests) > 0

\* C4: after a clear message the buffer is empty and the session identifier
\* is reset, both in memory and in the snapshot file.
C4_ClearResets ==
    ClearHandled =>
        /\ liveData.Requests = <<>>
        /\ liveData.SessionID = 0
        /\ file.exists
        /\ ~Persisted.err
        /\ Persisted.data.Requests = <<>>
        /\ Persisted.data.SessionID = 0

\* C5: a ping leaves the buffer, the session identifier, the exported-at
\* stamp and the snapshot file as they were, and its response reports the
\* current buffer length and the path of the file.
C5_PingReadOnly ==
    PingHandled =>
        /\ liveData = prev.data
        /\ file = prev.file
        /\ response.success
        /\ response.count = Len(liveData.Requests)
        /\ response.path = dataPath

C5_Witness ==
    /\ PingHandled
    /\ Len(liveData.Requests) > 0
    /\ now > liveData.ExportedAt
    /\ file.exists

\* The identifier is kept by start-up when the snapshot holds a request and
\* an identifier, and by every add, sync and ping.
SessionKept ==
    /\ (/\ last = "start"
        /\ prev.file.exists
        /\ ~Loaded.err
        /\ Len(Loaded.data.Requests) >= 1
        /\ Loaded.data.SessionID # 0)
       => liveData.SessionID = Loaded.data.SessionID
    /\ (AddHandled \/ SyncHandled \/ PingHandled)
       => liveData.SessionID = prev.data.SessionID

\* Start-up bound an identifier that the snapshot did not hold.
Generated ==
    /\ last = "start"
    /\ liveData.SessionID #
         (IF prev.file.exists /\ ~Loaded.err THEN Loaded.data.SessionID ELSE 0)

LoadedEmpty ==
    ~prev.file.exists \/ Loaded.err \/ Len(Loaded.data.Requests) = 0

CorruptAtStart == last = "start" /\ prev.file.exists /\ Loaded.err

\* C8: a snapshot file that does not parse at start-up does not stop the
\* host: it runs its loop with an empty buffer and with no session
\* identifier taken from the file.
C8_CorruptSnapshot ==
    CorruptAtStart =>
        /\ pc = "loop"
        /\ liveData.Requests = <<>>
        /\ liveData.Version = NewLiveData.Version
        /\ liveData.SessionID # 0
        /\ liveData.SessionID # Field(prev.file.bytes, "session_id", 0)

\* The corrupt file is one of which json.Unmarshal decoded a part.
C8_Witness ==
    /\ CorruptAtStart
    /\ checkValid(prev.file.bytes)
    /\ Len(Loaded.data.Requests) > 0

----------------------------------------------------------------------------
(* Query commands on the store file, one whole command per step: store.Get *)
(* (Load), the call on the Store, Store.Save where the command saves.      *)

\* A store file that holds sessions and legacy requests at once.
MixedStore ==
    [NewStore EXCEPT !.Requests = Pattern(1),
                     !.Sessions = <<[Requests |-> Pattern(2), ID |-> OldTime,
                                     Timestamp |-> OldTime, Note |-> 0]>>,
                     !.PrimaryDomains = {2},
                     !.LastImport = OldTime]

\* The store files a command may find: none, the well-formed ones, an empty
\* file and one cut before its end.
CmdStoreFiles ==
    InitStoreFiles
    \cup {WriteFile(StoreMarshalIndent(MixedStore)), WriteFile(<<>>)}
    \cup {Truncated(WriteFile(StoreMarshalIndent(s))) : s \in InitStores}

CmdInit ==
    /\ file = NoFile
    /\ HostInit
    /\ ~keepOnDisconnect
    /\ wr = NoWrite
    /\ rd = NoRead
    /\ seen = {}
    /\ store = NilStore
    /\ storeFile \in CmdStoreFiles
    /\ cmd = "none"
    /\ written = {}
    /\ CmdQuiet

\* Load, lines 157-158: whether this load runs the migration
Migrates(f) ==
    /\ f.exists
    /\ \E u \in {StoreUnmarshal(f.bytes, NewStore)} :
          /\ ~u.err
          /\ Len(u.store.Requests) > 0
          /\ Len(u.store.Sessions) = 0

\* What the call of a command does to the loaded store.
Apply(name, s, domains) ==
    IF name = "ignore" THEN Ignore(s, domains)
    ELSE IF name = "unignore" THEN Unignore(s, domains)
    ELSE IF name = "primary" THEN SetPrimary(s, domains)
    ELSE IF name = "unprimary" THEN UnsetPrimary(s, domains)
    ELSE [store |-> s, count |-> Len(s.Sessions)]

\* What store.Get gives a command: whether the load migrates, and the result
\* of Load.
StoreGet == <<Migrates(storeFile), Load(storeFile, now)>>

\* A command from store.Get (whose result is g) to its return: a failed load
\* ends it, `rep sessions` only lists, the others call Store.Save.
Command(name, domains, g) ==
    /\ cmd = "none"
    /\ g[1] => migrations < MaxMigrations
    /\ name # "sessions" => saves < MaxSaves
    /\ call' = <<name, domains, now>>
    /\ before' = [file |-> storeFile, store |-> g[2].store]
    /\ migrations' = IF g[1] THEN migrations + 1 ELSE migrations
    /\ saves' = IF name = "sessions" THEN saves ELSE saves + 1
    /\ \E r \in {Apply(name, g[2].store, domains)} :
          /\ out' = [err |-> g[2].err, count |-> IF g[2].err THEN 0 ELSE r.count]
          /\ store' = IF g[2].err THEN g[2].store ELSE r.store
          /\ storeFile' = IF g[2].err \/ name = "sessions" THEN storeFile
                          ELSE WriteFile(StoreMarshalIndent(r.store))
    /\ UNCHANGED <<hostVars, readVars, cmd, written, chainVars, procVars>>

SessionsCmd == \E g \in {StoreGet} : Command("sessions", <<>>, g)
IgnoreCmd == \E g \in {StoreGet}, ds \in DomainLists : Command("ignore", ds, g)
UnignoreCmd == \E g \in {StoreGet}, ds \in DomainLists : Command("unignore", ds, g)
PrimaryCmd == \E g \in {StoreGet}, ds \in DomainLists : Command("primary", ds, g)
UnprimaryCmd == \E g \in {StoreGet}, ds \in DomainLists : Command("unprimary", ds, g)

CmdNext ==
    \/ SessionsCmd
    \/ IgnoreCmd
    \/ UnignoreCmd
    \/ PrimaryCmd
    \/ UnprimaryCmd
    \/ Tick

SpecCmd == CmdInit /\ [][CmdNext]_vars

----------------------------------------------------------------------------
(* Load, the migration and the set mutators: claims C11 - C14, C16 *)

\* A command has run; the file it found; the time it ran at.
Ran == call # NoCall
Found == before.file
Parses(f) == f.exists /\ StoreCheckValid(f.bytes)
HasLegacy(f) == Parses(f) /\ \E i \in 1..Len(f.bytes) : f.bytes[i].k = "req"
HasSessions(f) == Parses(f) /\ \E i \in 1..Len(f.bytes) : f.bytes[i].k = "session"
LegacyOf(f) == Values(SelectSeq(f.bytes, IsReq))
Saves == call[1] \in {"ignore", "unignore", "primary", "unprimary"}

\* C11: Load returns a fresh empty Store and no error when the store file is
\* absent, and an error and no Store when the file exists but does not
\* parse; neither load modifies the file.
C11_LoadAbsentOrCorrupt ==
    Ran =>
        /\ ~Found.exists =>
              /\ ~out.err
              /\ before.store = NewStore
              /\ (~Saves => storeFile = Found)
        /\ (Found.exists /\ ~Parses(Found)) =>
              /\ out.err
              /\ before.store = NilStore
              /\ store = NilStore
              /\ storeFile = Found

C11_Witness ==
    /\ Ran
    /\ Found.exists
    /\ Len(Found.bytes) > 0
    /\ ~Parses(Found)
    /\ out.err

\* C12: loading a store file with N >= 1 legacy requests and no sessions
\* yields exactly one session, named migrated-<date>, that holds those N
\* requests in order; the legacy fields are empty in memory and the file the
\* next Save writes has no legacy field.
C12_LegacyMigrated ==
    (Ran /\ HasLegacy(Found) /\ ~HasSessions(Found)) =>
        /\ ~out.err
        /\ before.store.Sessions =
              <<[Requests |-> LegacyOf(Found), ID |-> MigratedID(call[3]),
                 Timestamp |-> call[3], Note |-> AutoMigrated]>>
        /\ before.store.Requests = <<>>
        /\ before.store.LastImport = 0
        /\ Saves =>
              /\ storeFile # Found
              /\ Parses(storeFile)
              /\ \A i \in 1..Len(storeFile.bytes) :
                    storeFile.bytes[i].k \notin {"requests[", "req", "last_import"}
              /\ DecodeSessions(storeFile.bytes) = before.store.Sessions

C12_Witness ==
    /\ Ran
    /\ HasLegacy(Found)
    /\ ~HasSessions(Found)
    /\ Len(LegacyOf(Found)) = 2
    /\ call[1] = "ignore"
    /\ HasSessions(storeFile)

\* C13: loading a store file that has legacy requests and at least one
\* session synthesizes no migration session: the sessions after the load are
\* the sessions of the file.
C13_NoMigrationWithSessions ==
    (Ran /\ HasLegacy(Found) /\ HasSessions(Found)) =>
        /\ ~out.err
        /\ before.store.Sessions = DecodeSessions(Found.bytes)
        /\ \A i \in 1..Len(before.store.Sessions) :
              before.store.Sessions[i].Note # AutoMigrated
        /\ before.store.Requests = LegacyOf(Found)

C13_Witness ==
    /\ Ran
    /\ HasLegacy(Found)
    /\ HasSessions(Found)
    /\ Len(before.store.Sessions) = 1

\* C14: over any sequence of loads, saves and read-only commands on one
\* store file the migration runs at most once, and no store ever holds two
\* migration sessions.
C14_MigratesOnce ==
    /\ migrations <= 1
    /\ Cardinality({i \in 1..Len(store.Sessions) :
                       store.Sessions[i].Note = AutoMigrated}) <= 1

\* The entries of the set a mutator works on, and of the other set.
OwnSet(s) ==
    IF call[1] \in {"ignore", "unignore"} THEN s.IgnoredDomains
    ELSE s.PrimaryDomains
OtherSet(s) ==
    IF call[1] \in {"ignore", "unignore"} THEN s.PrimaryDomains
    ELSE s.IgnoredDomains

\* C16: Ignore, Unignore, SetPrimary and UnsetPrimary return the number of
\* entries whose membership changed; the same call made again at once
\* returns 0 and changes nothing; none changes the sessions or the other set.
C16_SetMutatorsIdempotent ==
    (Ran /\ Saves /\ ~out.err) =>
        /\ out.count = Cardinality((OwnSet(store) \ OwnSet(before.store))
                                   \cup (OwnSet(before.store) \ OwnSet(store)))
        /\ Apply(call[1], store, call[2]).count = 0
        /\ Apply(call[1], store, call[2]).store = store
        /\ store.Sessions = before.store.Sessions
        /\ OtherSet(store) = OtherSet(before.store)

C16_Witness ==
    /\ Ran
    /\ call[1] = "ignore"
    /\ Len(call[2]) = 2
    /\ call[2][1] = call[2][2]
    /\ out.count = 1
    /\ Cardinality(store.IgnoredDomains) = 2

----------------------------------------------------------------------------
(* `rep save` and `rep list --saved <id>`.  A session identifier is the    *)
(* integer whose decimal digits are its characters, '-' being the digit 0; *)
(* a note is 0 (""), a one-digit word, or PunctNote, a note made of        *)
(* punctuation only.                                                       *)

PunctNote == 9
Notes == {0, 1, PunctNote}

\* GenerateSessionID, lines 244-258: what is left of the note
Sanitize(note) == IF note = PunctNote THEN 0 ELSE note

\* GenerateSessionID at time t: base, or base + "-" + sanitized
GenerateSessionID(t, note) ==
    IF note = 0 THEN t
    ELSE IF Sanitize(note) = 0 THEN t
    ELSE t * 100 + Sanitize(note)

\* strings.HasPrefix(s, prefix)
RECURSIVE HasPrefix(_, _)
HasPrefix(s, prefix) ==
    IF prefix = 0 THEN TRUE
    ELSE IF s = 0 THEN FALSE
    ELSE s = prefix \/ HasPrefix(s \div 10, prefix)

\* An AddSession that keeps the new session alone.
AddSession_Replaces(s, id, note, requests, t) ==
    [s EXCEPT !.Sessions = <<[Requests |-> requests, ID |-> id,
                              Timestamp |-> t, Note |-> note]>>]

\* Store.AddSession
AddSession(s, id, note, requests, t) ==
    [s EXCEPT !.Sessions = Append(@, [Requests |-> requests, ID |-> id,
                                      Timestamp |-> t, Note |-> note])]

\* GetSession with one loop that takes the first session matching either way
GetSession_FirstMatch(s, id) ==
    LET match == {i \in 1..Len(s.Sessions) : HasPrefix(s.Sessions[i].ID, id)}
    IN  IF match # {} THEN CHOOSE i \in match : \A j \in match : i <= j
        ELSE Nil

\* Store.GetSession: the index of the session it points to, Nil for nil
GetSession(s, id) ==
    LET exact  == {i \in 1..Len(s.Sessions) : s.Sessions[i].ID = id}
        prefix == {i \in 1..Len(s.Sessions) : HasPrefix(s.Sessions[i].ID, id)}
    IN  IF exact # {} THEN CHOOSE i \in exact : \A j \in exact : i <= j
        ELSE IF prefix # {} THEN CHOOSE i \in prefix : \A j \in prefix : i <= j
        ELSE Nil

\* The identifiers a user asks for: every prefix of an identifier `rep save`
\* can generate, and one that no session has.
LookupIDs ==
    LET top == GenerateSessionID(MaxTime, 1)
    IN  {p \in 0..(top + 1) :
            \/ p = top + 1
            \/ \E t \in StartTime..MaxTime, n \in Notes :
                  HasPrefix(GenerateSessionID(t, n), p)}

LookupInit ==
    /\ file = FileOf(OldTime, Pattern(1))
    /\ HostInit
    /\ wr = NoWrite
    /\ rd = NoRead
    /\ seen = {}
    /\ store = NilStore
    /\ storeFile = NoFile
    /\ cmd = "none"
    /\ written = {}
    /\ CmdQuiet

\* `rep save --note n`: the live export becomes a session of the store
SaveCmd ==
    \E note \in Notes :
        LET export == loadLiveExport(file.bytes)
            l      == Load(storeFile, now)
            s      == AddSession(l.store, GenerateSessionID(now, note), note,
                                 export.Requests, now)
        IN  /\ ~export.err
            /\ Len(export.Requests) > 0
            /\ ~l.err
            /\ Len(l.store.Sessions) < MaxSessions
            /\ call' = <<"save", note, now>>
            /\ before' = [file |-> storeFile, store |-> l.store]
            /\ out' = Len(s.Sessions)
            /\ store' = s
            /\ storeFile' = WriteFile(StoreMarshalIndent(s))
            /\ UNCHANGED <<hostVars, readVars, cmd, written, migrations, saves, chainVars, procVars>>

\* `rep list --saved id`: store.Get, then Store.GetSession
ListSavedCmd ==
    \E id \in LookupIDs :
        LET l == Load(storeFile, now)
        IN  /\ ~l.err
            /\ call' = <<"list", id, now>>
            /\ before' = [file |-> storeFile, store |-> l.store]
            /\ out' = GetSession(l.store, id)
            /\ store' = l.store
            /\ UNCHANGED <<hostVars, readVars, storeFile, cmd, written, migrations, saves, chainVars, procVars>>

LookupNext ==
    \/ SaveCmd
    \/ ListSavedCmd
    \/ Tick

SpecLookup == LookupInit /\ [][LookupNext]_vars

\* C15: GetSession(id) returns the session whose ID equals id whenever one
\* exists, even if an earlier session only has id as a prefix; otherwise the
\* first session in append order whose ID starts with id; otherwise nil; the
\* store is not changed.
C15_GetSession ==
    (call[1] = "list") =>
        LET ss       == before.store.Sessions
            id       == call[2]
            isExact  == \E i \in 1..Len(ss) : ss[i].ID = id
            isPrefix == \E i \in 1..Len(ss) : HasPrefix(ss[i].ID, id)
        IN  /\ isExact => (out # Nil /\ ss[out].ID = id)
            /\ (~isExact /\ isPrefix) =>
                  /\ out # Nil
                  /\ HasPrefix(ss[out].ID, id)
                  /\ \A j \in 1..(out - 1) : ~HasPrefix(ss[j].ID, id)
            /\ ~isPrefix => out = Nil
            /\ store = before.store
            /\ storeFile = before.file

C15_Witness ==
    /\ call[1] = "list"
    /\ out = 2
    /\ store.Sessions[2].ID = call[2]
    /\ store.Sessions[1].ID # call[2]
    /\ HasPrefix(store.Sessions[1].ID, call[2])

----------------------------------------------------------------------------
(* Store.Filter, as `rep list` calls it on the live export.  The strings   *)
(* Filter compares are one character long: 0 is "", a lower-case letter is *)
(* 1..9 and its upper-case form is the letter plus Upper; Bracket is "[",  *)
(* which is no regular expression.  Status 0 stands for a nil Response.    *)

Upper == 10
Bracket == 3

\* The fields of the requests of the live export, by request identifier.
RequestTable ==
    <<[Domain |-> 1, Method |-> 1, Status |-> 200, ResourceType |-> 1, URL |-> 1],
      [Domain |-> 11, Method |-> 2, Status |-> 404, ResourceType |-> 2, URL |-> 11],
      [Domain |-> 2, Method |-> 11, Status |-> 0, ResourceType |-> 1, URL |-> 3],
      [Domain |-> 2, Method |-> 2, Status |-> 500, ResourceType |-> 11, URL |-> 2]>>

RequestOf(id) == RequestTable[id]

\* FilterOptions{}
NoOptions ==
    [Pattern |-> 0, Domains |-> <<>>, Domain |-> 0, Method |-> 0,
     Status |-> 0, Methods |-> <<>>, StatusRange |-> "", StatusRanges |-> <<>>,
     ResourceTypes |-> <<>>, ExcludeIgnored |-> FALSE, PrimaryOnly |-> FALSE,
     Limit |-> 0, Offset |-> 0]

ToLower(c) == IF c > Upper THEN c - Upper ELSE c
EqualFold(a, b) == ToLower(a) = ToLower(b)
AnyFold(list, x) == \E i \in 1..Len(list) : EqualFold(x, list[i])

\* regexp.Compile, Regexp.MatchString and strings.Contains on these strings
Compiles(pattern) == pattern # Bracket
MatchString(pattern, u) == u = pattern
Contains(u, sub) == sub = 0 \/ u = sub

\* One case of the switch on a status range
InRange(sr, status) ==
    IF sr = "2xx" THEN status >= 200 /\ status < 300
    ELSE IF sr = "3xx" THEN status >= 300 /\ status < 400
    ELSE IF sr = "4xx" THEN status >= 400 /\ status < 500
    ELSE IF sr = "5xx" THEN status >= 500 /\ status < 600
    ELSE FALSE

KnownRanges == {"2xx", "3xx", "4xx", "5xx"}

\* Filter, lines 467-475: the ignore and primary sets are looked up by key
PassSets(s, opts, req) ==
    /\ ~(opts.ExcludeIgnored /\ req.Domain \in s.IgnoredDomains)
    /\ ~(opts.PrimaryOnly /\ req.Domain \notin s.PrimaryDomains)

\* lines 477-494
PassDomain(opts, req) ==
    /\ opts.Domain = 0 \/ EqualFold(req.Domain, opts.Domain)
    /\ Len(opts.Domains) = 0 \/ AnyFold(opts.Domains, req.Domain)

\* lines 496-513
PassMethod(opts, req) ==
    /\ opts.Method = 0 \/ EqualFold(req.Method, opts.Method)
    /\ Len(opts.Methods) = 0 \/ AnyFold(opts.Methods, req.Method)

\* lines 515-573: the range checks are skipped for a request without Response
PassStatus(opts, req) ==
    /\ opts.Status = 0 \/ (req.Status # 0 /\ req.Status = opts.Status)
    /\ \/ opts.StatusRange = ""
       \/ req.Status = 0
       \/ opts.StatusRange \notin KnownRanges
       \/ InRange(opts.StatusRange, req.Status)
    /\ \/ Len(opts.StatusRanges) = 0
       \/ req.Status = 0
       \/ \E i \in 1..Len(opts.StatusRanges) :
             InRange(opts.StatusRanges[i], req.Status)

\* lines 575-598
PassTypeAndPattern(opts, req) ==
    /\ Len(opts.ResourceTypes) = 0 \/ AnyFold(opts.ResourceTypes, req.ResourceType)
    /\ \/ opts.Pattern = 0
       \/ IF Compiles(opts.Pattern)
          THEN MatchString(opts.Pattern, req.URL)
          ELSE Contains(ToLower(req.URL), ToLower(opts.Pattern))

\* The predicates with the domain and the method checks joined by "or"
Matches_DomainOrMethod(s, opts, req) ==
    /\ PassSets(s, opts, req)
    /\ IF opts.Domain # 0 /\ opts.Method # 0
       THEN EqualFold(req.Domain, opts.Domain) \/ EqualFold(req.Method, opts.Method)
       ELSE PassDomain(opts, req) /\ PassMethod(opts, req)
    /\ PassStatus(opts, req)
    /\ PassTypeAndPattern(opts, req)

\* The body of the loop up to pagination: no `continue` was taken
Matches(s, opts, req) ==
    /\ PassSets(s, opts, req)
    /\ PassDomain(opts, req)
    /\ PassMethod(opts, req)
    /\ PassStatus(opts, req)
    /\ PassTypeAndPattern(opts, req)

\* The loop with the offset counting requests, not matches
RECURSIVE FilterLoop_SkipsRequests(_, _, _, _, _)
FilterLoop_SkipsRequests(s, opts, i, offset, result) ==
    IF i > Len(s.Requests) THEN result
    ELSE IF offset > 0
    THEN FilterLoop_SkipsRequests(s, opts, i + 1, offset - 1, result)
    ELSE IF ~Matches(s, opts, RequestOf(s.Requests[i]))
    THEN FilterLoop_SkipsRequests(s, opts, i + 1, offset, result)
    ELSE LET more == Append(result, s.Requests[i])
         IN  IF opts.Limit > 0 /\ Len(more) >= opts.Limit THEN more
             ELSE FilterLoop_SkipsRequests(s, opts, i + 1, offset, more)

\* Filter, lines 466-612: the loop from request i on, opts.Offset being
\* offset and the result so far result
RECURSIVE FilterLoop(_, _, _, _, _)
FilterLoop(s, opts, i, offset, result) ==
    IF i > Len(s.Requests) THEN result
    ELSE IF ~Matches(s, opts, RequestOf(s.Requests[i]))
    THEN FilterLoop(s, opts, i + 1, offset, result)
    ELSE IF offset > 0
    THEN FilterLoop(s, opts, i + 1, offset - 1, result)
    ELSE LET more == Append(result, s.Requests[i])
         IN  IF opts.Limit > 0 /\ Len(more) >= opts.Limit THEN more
             ELSE FilterLoop(s, opts, i + 1, offset, more)

Filter(s, opts) == FilterLoop(s, opts, 1, opts.Offset, <<>>)

\* NewTempStore(requests) with the sets of the persistent store
NewTempStore(requests, s) ==
    [NewStore EXCEPT !.Requests = requests,
                     !.IgnoredDomains = s.IgnoredDomains,
                     !.PrimaryDomains = s.PrimaryDomains]

\* One flag of `rep list` and its value.
Predicates ==
    {<<"Domain", 1>>, <<"Domains", <<2, 11>>>>, <<"ExcludeIgnored", TRUE>>,
     <<"Method", 1>>, <<"Methods", <<2>>>>, <<"Pattern", 1>>,
     <<"Pattern", Bracket>>, <<"PrimaryOnly", TRUE>>,
     <<"ResourceTypes", <<1>>>>, <<"Status", 404>>, <<"StatusRange", "4xx">>,
     <<"StatusRanges", <<"4xx", "5xx">>>>}

With(opts, p) == [opts EXCEPT ![p[1]] = p[2]]

\* The options of one `rep list`: up to two flags without pagination, or an
\* offset and a limit with at most the method flag.
Queries ==
    {With(With(NoOptions, p), q) : p \in Predicates, q \in Predicates}
    \cup {NoOptions}
    \cup {[o EXCEPT !.Limit = n, !.Offset = k] :
            o \in {NoOptions, With(NoOptions, <<"Method", 1>>)},
            n \in 0..MaxPage, k \in 0..MaxPage}

\* The ignore and primary sets of the persistent store.
FilterStores ==
    {[NewStore EXCEPT !.IgnoredDomains = ig, !.PrimaryDomains = pr] :
        ig \in {{}, {1}, {2, 11}}, pr \in {{}, {1}}}

FilterInit ==
    /\ file \in {FileOf(OldTime, q) :
                    q \in ListsOf(DOMAIN RequestTable, MaxRequests) \ {<<>>}}
    /\ HostInit
    /\ wr = NoWrite
    /\ rd = NoRead
    /\ seen = {}
    /\ store = NilStore
    /\ storeFile \in {WriteFile(StoreMarshalIndent(s)) : s \in FilterStores}
    /\ cmd = "none"
    /\ written = {}
    /\ CmdQuiet

\* `rep list` with its flags, run once: the live export, filtered
ListCmd ==
    \E opts \in Queries :
        LET export == loadLiveExport(file.bytes)
            l      == Load(storeFile, now)
            temp   == NewTempStore(export.Requests, l.store)
        IN  /\ call = NoCall
            /\ ~export.err
            /\ Len(export.Requests) > 0
            /\ ~l.err
            /\ ~(opts.PrimaryOnly /\ temp.PrimaryDomains = {})
            /\ call' = <<"filter", opts, now>>
            /\ before' = [file |-> storeFile, store |-> l.store]
            /\ out' = Filter(temp, opts)
            /\ store' = temp
            /\ UNCHANGED <<hostVars, readVars, storeFile, cmd, written, migrations, saves, chainVars, procVars>>

FilterNext == ListCmd

SpecFilter == FilterInit /\ [][FilterNext]_vars

----------------------------------------------------------------------------
(* Store.Filter: claims C17 - C20 *)

Filtered == call[1] = "filter"
Opts == call[2]
Unpaged(o) == [o EXCEPT !.Limit = 0, !.Offset = 0]
Range(q) == {q[i] : i \in 1..Len(q)}

RECURSIVE IsSubseq(_, _)
IsSubseq(a, b) ==
    IF a = <<>> THEN TRUE
    ELSE IF b = <<>> THEN FALSE
    ELSE IF Head(a) = Head(b) THEN IsSubseq(Tail(a), Tail(b))
    ELSE IsSubseq(a, Tail(b))

PredicateFields ==
    {"Domain", "Domains", "ExcludeIgnored", "Method", "Methods", "Pattern",
     "PrimaryOnly", "ResourceTypes", "Status", "StatusRange", "StatusRanges"}

\* The options with the one predicate f of o.
Only(o, f) == [NoOptions EXCEPT ![f] = o[f]]

\* C17: without pagination, every request filter returns for two predicates
\* is returned for each of them alone, and every filter result is a
\* subsequence of the store's requests in their order.
C17_FilterComposes ==
    Filtered =>
        /\ IsSubseq(out, store.Requests)
        /\ (Opts.Limit = 0 /\ Opts.Offset = 0) =>
              \A f \in PredicateFields :
                  Range(out) \subseteq Range(Filter(store, Only(Opts, f)))

C17_Witness ==
    /\ Filtered
    /\ Opts.Domain # 0
    /\ Opts.Method # 0
    /\ Len(out) = 1
    /\ Len(Filter(store, Only(Opts, "Domain"))) = 2
    /\ Len(Filter(store, Only(Opts, "Method"))) = 2

\* The matches of the predicates without pagination.
AllMatches == Filter(store, Unpaged(Opts))

\* C18: with M the matches without pagination, offset K and limit N return
\* M[K .. K+N), all of M from K on when N is 0.
C18_Pagination ==
    Filtered =>
        out = SubSeq(AllMatches, Opts.Offset + 1,
                     IF Opts.Limit = 0 THEN Len(AllMatches)
                     ELSE Min(Opts.Offset + Opts.Limit, Len(AllMatches)))

C18_Witness ==
    /\ Filtered
    /\ Opts.Offset = 1
    /\ Opts.Limit = 1
    /\ Len(AllMatches) = 2
    /\ store.Requests[1] \notin Range(AllMatches)
    /\ out = <<AllMatches[2]>>

\* A request whose response status falls in the range, or in one of the
\* ranges, of the options.
HasStatusInRange(r) ==
    LET status == RequestOf(r).Status
    IN  /\ status # 0
        /\ IF Opts.StatusRange # "" THEN InRange(Opts.StatusRange, status)
           ELSE \E i \in 1..Len(Opts.StatusRanges) :
                   InRange(Opts.StatusRanges[i], status)

\* C19: given a status range or a set of status ranges, filter returns
\* exactly the requests whose response status falls in the range (in one of
\* the ranges), in their order.
C19_StatusRanges ==
    (/\ Filtered
     /\ Opts \in {With(NoOptions, <<"StatusRange", "4xx">>),
                  With(NoOptions, <<"StatusRanges", <<"4xx", "5xx">>>>)})
        => out = SelectSeq(store.Requests, HasStatusInRange)

NotIgnoredFold(r) ==
    \A d \in store.IgnoredDomains : ~EqualFold(RequestOf(r).Domain, d)
PrimaryFold(r) ==
    \E d \in store.PrimaryDomains : EqualFold(RequestOf(r).Domain, d)

\* C20: the ignored-domain exclusion and the primary-only predicate compare
\* a request's domain with the entries of the sets up to letter case.
C20_DomainSetsFoldCase ==
    /\ (Filtered /\ Opts = With(NoOptions, <<"ExcludeIgnored", TRUE>>))
          => out = SelectSeq(store.Requests, NotIgnoredFold)
    /\ (Filtered /\ Opts = With(NoOptions, <<"PrimaryOnly", TRUE>>))
          => out = SelectSeq(store.Requests, PrimaryFold)


----------------------------------------------------------------------------
(* `rep chain <id>`: the walk from a request back along its initiators.    *)
(* A request is its ID, Method, URL and Initiator, the fields the walk     *)
(* reads; "" is 0. The collection is the working set of the command.       *)

\* The request at position i of a collection: an ID and a URL of its own or
\* those of the first request, and an initiator that is empty, the URL of
\* some request, or a URL no request has.
ChainShapes == BOOLEAN \X BOOLEAN \X (0..(MaxChain + 1))
ChainRequestAt(i, shape) ==
    [ID |-> IF shape[1] THEN i ELSE 1, Method |-> "GET",
     URL |-> IF shape[2] THEN i ELSE 1, Initiator |-> shape[3]]

\* The collection of n requests of the given shapes.
ChainCollection(n, shapes) == [i \in 1..n |-> ChainRequestAt(i, shapes[i])]

ChainInit ==
    /\ file = NoFile
    /\ HostInit
    /\ ~keepOnDisconnect
    /\ wr = NoWrite
    /\ rd = NoRead
    /\ seen = {}
    /\ \E n \in 1..MaxChain :
          \E shapes \in [1..n -> ChainShapes] :
              store = [NewStore EXCEPT !.Requests = ChainCollection(n, shapes)]
    /\ storeFile = NoFile
    /\ cmd = "none"
    /\ written = {}
    /\ CmdQuiet

\* Store.GetRequest: the position of the first request with the ID; 0 is nil
GetRequest(s, id) ==
    IF \E i \in 1..Len(s.Requests) : s.Requests[i].ID = id
    THEN CHOOSE i \in 1..Len(s.Requests) :
            /\ s.Requests[i].ID = id
            /\ \A j \in 1..(i - 1) : s.Requests[j].ID # id
    ELSE Nil

\* findRequestByURL: Filter with no option set returns every request in
\* order; the position of the first one with the URL; 0 is nil
findRequestByURL(s, targetURL) ==
    IF \E i \in 1..Len(s.Requests) : s.Requests[i].URL = targetURL
    THEN CHOOSE i \in 1..Len(s.Requests) :
            /\ s.Requests[i].URL = targetURL
            /\ \A j \in 1..(i - 1) : s.Requests[j].URL # targetURL
    ELSE Nil

\* The link of a request, and the root link that carries only a URL.
LinkOf(r) ==
    [ID |-> r.ID, Method |-> r.Method, URL |-> r.URL, Initiator |-> r.Initiator]
RootLink(url) == [ID |-> 0, Method |-> "->", URL |-> url, Initiator |-> 0]

\* showRequestChain up to the loop of buildChainForRequest: an unknown ID
\* ends the command with an error.
ShowRequestChain ==
    \E requestID \in 0..MaxChain :
        LET req == GetRequest(store, requestID)
        IN  /\ cmd = "none"
            /\ call = NoCall
            /\ call' = <<"chain", requestID, now>>
            /\ current' = req
            /\ visited' = {}
            /\ chain' = <<>>
            /\ steps' = 0
            /\ cmd' = IF req = Nil THEN "done" ELSE "chain"
            /\ out' = IF req = Nil THEN "request not found" ELSE out
            /\ UNCHANGED <<hostVars, readVars, store, storeFile, written, before,
                           migrations, saves,
                       procVars>>

\* A walk that puts each link behind the chain instead of before it.
ChainStep_Appends ==
    LET req    == store.Requests[current]
        parent == findRequestByURL(store, req.Initiator)
        link   == chain \o <<LinkOf(req)>>
        break  == \/ req.Initiator = 0
                  \/ parent = Nil
                  \/ store.Requests[parent].ID = req.ID
    IN  /\ cmd = "chain"
        /\ current # Nil
        /\ req.ID \notin visited
        /\ visited' = visited \cup {req.ID}
        /\ steps' = steps + 1
        /\ chain' = IF req.Initiator # 0 /\ break
                    THEN link \o <<RootLink(req.Initiator)>>
                    ELSE link
        /\ current' = IF break THEN current ELSE parent
        /\ cmd' = IF break THEN "done" ELSE "chain"
        /\ out' = IF break THEN chain' ELSE out
        /\ UNCHANGED <<hostVars, readVars, store, storeFile, written, call, before,
                       migrations, saves,
                       procVars>>

\* A walk that marks the URL of a request instead of its ID.
ChainStep_MarksURL ==
    LET req    == store.Requests[current]
        parent == findRequestByURL(store, req.Initiator)
        link   == <<LinkOf(req)>> \o chain
        break  == \/ req.Initiator = 0
                  \/ parent = Nil
                  \/ store.Requests[parent].ID = req.ID
    IN  /\ cmd = "chain"
        /\ current # Nil
        /\ req.URL \notin visited
        /\ visited' = visited \cup {req.URL}
        /\ steps' = steps + 1
        /\ chain' = IF req.Initiator # 0 /\ break
                    THEN <<RootLink(req.Initiator)>> \o link
                    ELSE link
        /\ current' = IF break THEN current ELSE parent
        /\ cmd' = IF break THEN "done" ELSE "chain"
        /\ out' = IF break THEN chain' ELSE out
        /\ UNCHANGED <<hostVars, readVars, store, storeFile, written, call, before,
                       migrations, saves,
                       procVars>>

\* One run of the loop body, lines 709-744: mark the ID, prepend the link,
\* then stop at an empty initiator, stop behind a root link when no other
\* request has the initiator URL, or move to the parent.
ChainStep ==
    LET req    == store.Requests[current]
        parent == findRequestByURL(store, req.Initiator)
        link   == <<LinkOf(req)>> \o chain
        break  == \/ req.Initiator = 0
                  \/ parent = Nil
                  \/ store.Requests[parent].ID = req.ID
    IN  /\ cmd = "chain"
        /\ current # Nil
        /\ req.ID \notin visited
        /\ visited' = visited \cup {req.ID}
        /\ steps' = steps + 1
        /\ chain' = IF req.Initiator # 0 /\ break
                    THEN <<RootLink(req.Initiator)>> \o link
                    ELSE link
        /\ current' = IF break THEN current ELSE parent
        /\ cmd' = IF break THEN "done" ELSE "chain"
        /\ out' = IF break THEN chain' ELSE out
        /\ UNCHANGED <<hostVars, readVars, store, storeFile, written, call, before,
                       migrations, saves,
                       procVars>>

\* The loop condition fails, line 709: the walk returns the chain.
ChainReturn ==
    /\ cmd = "chain"
    /\ ~(current # Nil /\ store.Requests[current].ID \notin visited)
    /\ cmd' = "done"
    /\ out' = chain
    /\ UNCHANGED <<hostVars, readVars, store, storeFile, written, call, before,
                   migrations, saves, chainVars, procVars>>

ChainNext ==
    \/ ShowRequestChain
    \/ ChainStep
    \/ ChainReturn

SpecChain == ChainInit /\ [][ChainNext]_vars

----------------------------------------------------------------------------
(* Chain reconstruction: claims C21, C22 *)

Walked == call[1] = "chain" /\ current # Nil
Returned == Walked /\ cmd = "done"
DistinctRequests == Cardinality({store.Requests[i] : i \in 1..Len(store.Requests)})
IsRootLink(l) == l.Method = "->"

\* C21: for every collection and target, cycles and self-references
\* included, the walk runs at most (number of distinct requests + 1) steps,
\* the chain never holds more links than that, and no two links of requests
\* in the chain carry the same ID.
C21_ChainTerminates ==
    Walked =>
        /\ steps <= DistinctRequests + 1
        /\ Len(chain) <= DistinctRequests + 1
        /\ \A i, j \in 1..Len(chain) :
              (i < j /\ ~IsRootLink(chain[i]) /\ ~IsRootLink(chain[j]))
                  => chain[i].ID # chain[j].ID

\* A walk around a cycle of three requests has returned.
C21_Witness ==
    /\ Returned
    /\ steps = MaxChain
    /\ Len(out) = MaxChain
    /\ \A i \in 1..Len(out) : ~IsRootLink(out[i]) /\ out[i].Initiator # 0


\* The orders in which the requests of the collection can form a chain.
Orders == {p \in [1..Len(store.Requests) -> 1..Len(store.Requests)] :
              \A i, j \in 1..Len(store.Requests) : p[i] = p[j] => i = j}

\* The collection is the acyclic chain R1 <- ... <- Rn in the order p, its
\* requests apart in ID and URL, and the target is Rn.
IsChainTo(p) ==
    LET n    == Len(store.Requests)
        R(k) == store.Requests[p[k]]
    IN  /\ \A i, j \in 1..n : i # j => (R(i).ID # R(j).ID /\ R(i).URL # R(j).URL)
        /\ R(1).Initiator = 0
        /\ \A k \in 1..(n - 1) : R(k + 1).Initiator = R(k).URL
        /\ call[2] = R(n).ID

\* The request link at the head of the chain: the node the walk ran last.
HeadNode == IF IsRootLink(chain[1]) THEN chain[2] ELSE chain[1]
Unmatched(url) == url # 0 /\ findRequestByURL(store, url) = Nil

\* C22: for an acyclic chain R1 <- ... <- Rn the walk from Rn returns the
\* links of R1, ..., Rn in that order, the target last; when the initiator
\* URL of the node the walk is at matches no request, one root link with
\* that URL and no ID is placed first and the walk stops.
C22_ChainOrder ==
    /\ Returned =>
          \A p \in Orders :
              IsChainTo(p) =>
                  out = [k \in 1..Len(store.Requests) |-> LinkOf(store.Requests[p[k]])]
    /\ (Walked /\ chain # <<>> /\ Unmatched(HeadNode.Initiator)) =>
          /\ cmd = "done"
          /\ chain[1] = RootLink(HeadNode.Initiator)
          /\ chain[1].ID = 0
          /\ \A i \in 2..Len(chain) : ~IsRootLink(chain[i])
          /\ out = chain

\* The walk from the last of a chain of three requests has returned.
C22_Witness ==
    /\ Returned
    /\ Len(store.Requests) = MaxChain
    /\ \E p \in Orders : IsChainTo(p) /\ p[1] # 1
    /\ Len(out) = MaxChain


----------------------------------------------------------------------------
(* The fingerprint of a request. A string is the sequence of its           *)
(* characters; a request is the fields the fingerprint reads.              *)

\* strings.HasPrefix on character sequences
StartsWith(s, prefix) ==
    /\ Len(prefix) <= Len(s)
    /\ SubSeq(s, 1, Len(prefix)) = prefix

\* The marker of a stable ID, "h_".
StableMarker == <<"h", "_">>

\* fmt.Sprintf("%s|%s|%s|%d", ...), line 787
RawOf(req) ==
    req.Method \o <<"|">> \o req.URL \o <<"|">> \o req.Body \o <<"|">>
        \o <<ToString(req.Timestamp)>>

\* The hexadecimal SHA-256 digest of a string: the digest stands for the
\* string it was computed from, so that two strings have one digest only
\* when they are equal.
Sha256Hex(raw) == <<"sha256:">> \o raw

\* RequestHash of a request that is not nil
RequestHash(req) == Sha256Hex(RawOf(req))

\* An isStableID that does not look for an empty ID first.
isStableID_EmptyID(req) ==
    \/ req.OriginalID # <<>>
    \/ StartsWith(req.ID, StableMarker)

\* isStableID of a request that is not nil
isStableID(req) ==
    IF req.ID = <<>> THEN FALSE
    ELSE IF req.OriginalID # <<>> THEN TRUE
    ELSE StartsWith(req.ID, StableMarker)

\* RequestFingerprint of a request that is not nil
RequestFingerprint(req) ==
    IF isStableID(req) THEN req.ID ELSE RequestHash(req)

\* The IDs a request may carry: none, one with the marker, the marker alone,
\* a cut marker, one with the marker inside, and one that reads like the
\* digest of a request.
FingerprintIDs ==
    {<<>>, <<"h", "_", "a">>, StableMarker, <<"h">>, <<"a", "h", "_">>,
     Sha256Hex(<<"G", "|", "u", "|", "|", ToString(StartTime)>>)}

FingerprintRequests ==
    [ID : FingerprintIDs, Timestamp : StartTime..MaxTime,
     Method : {<<"G">>, <<"P">>}, URL : {<<"u">>, <<"v">>},
     Body : {<<>>, <<"b">>}, OriginalID : {<<>>, <<"o">>}]

FingerprintInit ==
    /\ file = NoFile
    /\ HostInit
    /\ ~keepOnDisconnect
    /\ wr = NoWrite
    /\ rd = NoRead
    /\ seen = {}
    /\ store = NilStore
    /\ storeFile = NoFile
    /\ cmd = "none"
    /\ written = {}
    /\ CmdQuiet

\* One call of RequestFingerprint and one of RequestHash on a request.
FingerprintCall ==
    \E req \in FingerprintRequests :
        /\ call' = <<"fingerprint", req, now>>
        /\ out' = <<RequestFingerprint(req), RequestHash(req)>>
        /\ UNCHANGED <<hostVars, readVars, storeVars, before, migrations, saves,
                       chainVars, procVars>>

FingerprintNext ==
    \/ FingerprintCall
    \/ Tick

SpecFingerprint == FingerprintInit /\ [][FingerprintNext]_vars

----------------------------------------------------------------------------
(* The fingerprint: claim C23 *)

Fingerprinted == call[1] = "fingerprint"

\* The condition of the claim for a stable ID.
HasStableID(req) ==
    /\ req.ID # <<>>
    /\ \/ req.OriginalID # <<>>
       \/ (Len(req.ID) >= 2 /\ req.ID[1] = "h" /\ req.ID[2] = "_")

----------------------------------------------------------------------------
(* HeaderMap.UnmarshalJSON. A JSON text is the value it denotes: null, a   *)
(* string, a number, an array of values, or an object, the sequence of its *)
(* members <<name, value>>. A HeaderMap is a function from names to        *)
(* sequences of values; a nil map or slice is the empty one.               *)

JNull == <<"null">>
JStr(str) == <<"str", str>>
JNum(n) == <<"num", n>>
JArr(elements) == <<"arr", elements>>
JObj(members) == <<"obj", members>>

\* The names of an object, and the value json.Unmarshal keeps for a name:
\* that of its last member.
NamesOf(members) == {members[i][1] : i \in 1..Len(members)}
LastOf(members, name) ==
    members[CHOOSE i \in 1..Len(members) :
               /\ members[i][1] = name
               /\ \A j \in (i + 1)..Len(members) : members[j][1] # name][2]

\* json.Unmarshal into a string leaves "" for null and fails on anything
\* that is not a string.
IsStringOrNull(v) == v[1] \in {"str", "null"}
StringOf(v) == IF v[1] = "str" THEN v[2] ELSE ""

\* json.Unmarshal into a []string
IsStringSlice(v) ==
    \/ v[1] = "null"
    \/ v[1] = "arr" /\ \A i \in 1..Len(v[2]) : IsStringOrNull(v[2][i])
StringSliceOf(v) ==
    IF v[1] = "null" THEN <<>> ELSE [i \in 1..Len(v[2]) |-> StringOf(v[2][i])]

\* json.Unmarshal(data, &multi), line 25
IsMulti(v) ==
    \/ v[1] = "null"
    \/ v[1] = "obj" /\ \A i \in 1..Len(v[2]) : IsStringSlice(v[2][i][2])
MultiOf(v) ==
    IF v[1] = "null" THEN <<>>
    ELSE [name \in NamesOf(v[2]) |-> StringSliceOf(LastOf(v[2], name))]

\* json.Unmarshal(data, &single), line 31, and the conversion of lines 32-35
IsSingle(v) ==
    \/ v[1] = "null"
    \/ v[1] = "obj" /\ \A i \in 1..Len(v[2]) : IsStringOrNull(v[2][i][2])
SingleOf(v) ==
    IF v[1] = "null" THEN <<>>
    ELSE [name \in NamesOf(v[2]) |-> <<StringOf(LastOf(v[2], name))>>]

\* json.Unmarshal into a HeaderKV: an object whose "name" and "value", where
\* it has them, are strings; its other members are skipped.
IsHeaderKV(v) ==
    \/ v[1] = "null"
    \/ v[1] = "obj" /\ \A i \in 1..Len(v[2]) :
                          v[2][i][1] \in {"name", "value"} => IsStringOrNull(v[2][i][2])
KVField(v, field) ==
    IF v[1] = "obj" /\ field \in NamesOf(v[2])
    THEN StringOf(LastOf(v[2], field)) ELSE ""

\* The loop of lines 44-49 for one name: the values of the items of that
\* name, in order.
ValuesOf(list, name) ==
    LET named == SelectSeq(list, LAMBDA item : KVField(item, "name") = name)
    IN  [i \in 1..Len(named) |-> KVField(named[i], "value")]

\* json.Unmarshal(data, &list), line 42, and the conversion of lines 43-50
IsList(v) ==
    \/ v[1] = "null"
    \/ v[1] = "arr" /\ \A i \in 1..Len(v[2]) : IsHeaderKV(v[2][i])
ListOf(v) ==
    IF v[1] = "null" THEN <<>>
    ELSE [name \in {KVField(v[2][i], "name") : i \in 1..Len(v[2])} \ {""}
              |-> ValuesOf(v[2], name)]

\* HeaderMap.UnmarshalJSON
UnmarshalJSON(v) ==
    IF v = JNull THEN [data |-> <<>>, err |-> FALSE]
    ELSE IF IsMulti(v) THEN [data |-> MultiOf(v), err |-> FALSE]
    ELSE IF IsSingle(v) THEN [data |-> SingleOf(v), err |-> FALSE]
    ELSE IF IsList(v) THEN [data |-> ListOf(v), err |-> FALSE]
    ELSE [data |-> <<>>, err |-> TRUE]

\* json.Marshal of a HeaderMap that is not nil: an object of arrays of
\* strings, its names sorted (here the shorter name is the smaller one).
RECURSIVE MembersOf(_, _)
MembersOf(h, names) ==
    IF names = {} THEN <<>>
    ELSE LET name == CHOOSE n \in names : \A m \in names : Len(n) <= Len(m)
         IN  <<<<name, JArr([i \in 1..Len(h[name]) |-> JStr(h[name][i])])>>>>
                 \o MembersOf(h, names \ {name})
MarshalHeaders(h) == JObj(MembersOf(h, DOMAIN h))

\* The header names and values of the sample texts.
HeaderNames == {"a", "bb"}
HeaderStrings == {"x", "y"}

\* The multi-value maps: each name of a set of names with up to MaxValues
\* values.
HeaderMaps ==
    UNION {[names -> UNION {[1..n -> HeaderStrings] : n \in 0..MaxValues}] :
              names \in SUBSET HeaderNames}

\* The single-value maps, as texts.
SingleTexts ==
    {JObj(<<>>)} \cup {JObj(<<<<"a", JStr(x)>>>>) : x \in HeaderStrings}
    \cup {JObj(<<<<"a", JStr(x)>>, <<"bb", JStr(y)>>>>) : x, y \in HeaderStrings}

\* The name/value pair lists of up to MaxPairs pairs, as texts.
PairTexts ==
    LET pairs == {JObj(<<<<"name", JStr(n)>>, <<"value", JStr(x)>>>>) :
                     n \in HeaderNames, x \in HeaderStrings}
    IN  {JArr(list) : list \in UNION {[1..n -> pairs] : n \in 0..MaxPairs}}

\* Lists with an item that has no name.
NamelessTexts ==
    {JArr(<<JObj(<<<<"name", JStr("")>>, <<"value", JStr("x")>>>>)>>),
     JArr(<<JObj(<<<<"value", JStr("x")>>>>),
            JObj(<<<<"name", JStr("a")>>, <<"value", JStr("y")>>>>)>>),
     JArr(<<JNull>>)}

\* Texts of none of the three forms.
OtherTexts ==
    {JStr("x"), JNum(1), JArr(<<JNum(1)>>), JArr(<<JStr("x")>>),
     JObj(<<<<"a", JNum(1)>>>>),
     JObj(<<<<"a", JStr("x")>>, <<"bb", JArr(<<JStr("y")>>)>>>>),
     JArr(<<JObj(<<<<"name", JNum(1)>>>>)>>)}

HeaderTexts ==
    {JNull} \cup {MarshalHeaders(h) : h \in HeaderMaps}
    \cup SingleTexts \cup PairTexts \cup NamelessTexts \cup OtherTexts

\* One decoding of a header text.
DecodeHeaders ==
    \E text \in HeaderTexts :
        /\ call' = <<"headers", text, now>>
        /\ out' = UnmarshalJSON(text)
        /\ UNCHANGED <<hostVars, readVars, storeVars, before, migrations, saves,
                       chainVars, procVars>>

HeadersNext ==
    \/ DecodeHeaders
    \/ Tick

SpecHeaders == FingerprintInit /\ [][HeadersNext]_vars

----------------------------------------------------------------------------
(* Header decoding: claim C24 *)

DecodedHeaders == call[1] = "headers"

\* The pairs of a pair list text, as <<name, value>>.
PairsOf(text) ==
    [i \in 1..Len(text[2]) |-> <<text[2][i][2][1][2][2], text[2][i][2][2][2][2]>>]

\* C24: decoding the encoding of a multi-value map gives the map back; a
\* single-value map decodes to the map of its names to the one-element
\* lists of their values, and so does a name/value pair list; a text of
\* none of the three forms is rejected with an error.
C24_HeadersNormalized ==
    DecodedHeaders =>
        LET text == call[2]
        IN  /\ \A h \in HeaderMaps :
                  text = MarshalHeaders(h) => (~out.err /\ out.data = h)
            /\ text \in SingleTexts =>
                  /\ ~out.err
                  /\ DOMAIN out.data = NamesOf(text[2])
                  /\ \A i \in 1..Len(text[2]) :
                        out.data[text[2][i][1]] = <<text[2][i][2][2]>>
            /\ text \in PairTexts =>
                  /\ ~out.err
                  /\ DOMAIN out.data = {PairsOf(text)[i][1] : i \in 1..Len(text[2])}
                  /\ \A i \in 1..Len(text[2]) :
                        out.data[PairsOf(text)[i][1]] = <<PairsOf(text)[i][2]>>
            /\ text \in OtherTexts => out.err


----------------------------------------------------------------------------
(* The derived fields of a request. A URL is the sequence of its           *)
(* characters; its scheme is "s", and "%" is never followed by two         *)
(* hexadecimal digits.                                                     *)

\* The position of the first ch in a string, 0 when it has none.
IndexOf(str, ch) ==
    IF \E i \in 1..Len(str) : str[i] = ch
    THEN CHOOSE i \in 1..Len(str) : str[i] = ch /\ \A j \in 1..(i - 1) : str[j] # ch
    ELSE 0
From(str, i) == SubSeq(str, i, Len(str))

\* url.Parse: the scheme up to the first ":", the query behind the first
\* "?", the host between "//" and the next "/", the path; an error for a
\* text that begins with ":" and for a "%" in the host or the path.
ParseURL(text) ==
    LET colon   == IndexOf(text, ":")
        scheme  == colon > 1 /\ \A j \in 1..(colon - 1) : text[j] = "s"
        rest    == IF scheme THEN From(text, colon + 1) ELSE text
        mark    == IndexOf(rest, "?")
        hier    == IF mark = 0 THEN rest ELSE SubSeq(rest, 1, mark - 1)
        query   == IF mark = 0 THEN <<>> ELSE From(rest, mark + 1)
        slashes == Len(hier) >= 2 /\ hier[1] = "/" /\ hier[2] = "/"
        after   == IF slashes THEN From(hier, 3) ELSE hier
        slash   == IndexOf(after, "/")
        host    == IF ~slashes THEN <<>>
                   ELSE IF slash = 0 THEN after
                   ELSE SubSeq(after, 1, slash - 1)
        path    == IF ~slashes THEN hier
                   ELSE IF slash = 0 THEN <<>>
                   ELSE From(after, slash)
    IN  IF colon = 1 \/ IndexOf(host, "%") # 0 \/ IndexOf(path, "%") # 0
        THEN [err |-> TRUE, Host |-> <<>>, RawQuery |-> <<>>, Path |-> <<>>]
        ELSE [err |-> FALSE, Host |-> host, RawQuery |-> query, Path |-> path]

\* ComputeRequestFields
ComputeRequestFields(req) ==
    LET parsedURL == ParseURL(req.URL)
    IN  IF parsedURL.err THEN req
        ELSE [req EXCEPT !.Domain = parsedURL.Host,
                         !.Path = IF parsedURL.RawQuery # <<>>
                                  THEN parsedURL.Path \o <<"?">> \o parsedURL.RawQuery
                                  ELSE parsedURL.Path]

\* The loop body of NewTempStore, lines 115-120
TempRequestFields(req) ==
    LET parsed == ParseURL(req.URL)
    IN  IF parsed.err THEN req
        ELSE [req EXCEPT !.Domain = parsed.Host, !.Path = parsed.Path]

\* How a request enters a Store: Load of a store file, AddSession, or
\* NewTempStore.
Routes == {"load", "session", "temp"}
Ingest(route, req) ==
    IF route = "temp" THEN TempRequestFields(req) ELSE ComputeRequestFields(req)

\* The parts of the sample URLs: a host or none, a path, and a query, an
\* empty query or none (<<"-">>).
URLParts ==
    {<<>>, <<"h">>, <<"h", ":", "8">>}
    \X {<<>>, <<"/", "p">>, <<"/", "%">>}
    \X {<<"-">>, <<>>, <<"q">>}

\* The text of a URL with these parts.
URLText(parts) ==
    (IF parts[1] = <<>> THEN <<>> ELSE <<"s", ":", "/", "/">> \o parts[1])
        \o parts[2]
        \o (IF parts[3] = <<"-">> THEN <<>> ELSE <<"?">> \o parts[3])

\* A request as json.Unmarshal leaves it: Domain and Path are not read.
DecodedRequest(text) ==
    [Domain |-> <<>>, Method |-> "GET", URL |-> text, Path |-> <<>>]

\* One request entering a Store.
IngestRequest ==
    \E route \in Routes, parts \in URLParts :
        /\ call' = <<route, parts, now>>
        /\ out' = Ingest(route, DecodedRequest(URLText(parts)))
        /\ UNCHANGED <<hostVars, readVars, storeVars, before, migrations, saves,
                       chainVars, procVars>>

FieldsNext ==
    \/ IngestRequest
    \/ Tick

SpecFields == FingerprintInit /\ [][FieldsNext]_vars

----------------------------------------------------------------------------
(* The derived fields: claim C25 *)

Ingested == call[1] \in Routes
Malformed(parts) == IndexOf(parts[2], "%") # 0
HasQuery(parts) == parts[3] \notin {<<"-">>, <<>>}

\* C25: a request held in a Store, loaded from disk, added as a session or
\* placed in a transient working set, has the host of its URL as domain and
\* as path the path of its URL, followed by "?" and the query when the URL
\* has one; both are empty when the URL is malformed.
C25_DerivedFields ==
    Ingested =>
        LET parts == call[2]
        IN  IF Malformed(parts)
            THEN out.Domain = <<>> /\ out.Path = <<>>
            ELSE /\ out.Domain = parts[1]
                 /\ out.Path = IF HasQuery(parts)
                               THEN parts[2] \o <<"?">> \o parts[3]
                               ELSE parts[2]


----------------------------------------------------------------------------
(* `rep clear`, one whole command per step. *)

\* Store.ClearAll
ClearAll(s) ==
    [s EXCEPT !.Sessions = <<>>, !.IgnoredDomains = {}, !.PrimaryDomains = {}]

\* The export clearLiveExportFile marshals, lines 105-111
EmptyExport(t) ==
    MarshalIndent([Version |-> 1, ExportedAt |-> t, SessionID |-> 0,
                   Requests |-> <<>>])

\* What clearLiveExportFile can leave at the live path: the empty export;
\* the file as it was, when MkdirAll or the open fails; a file cut to
\* nothing, when the write fails behind the open.
ClearedLiveFiles(f, t) == {WriteFile(EmptyExport(t)), f, OpenTrunc}

\* The live files `rep clear` may find.
ClearLiveFiles ==
    {NoFile} \cup {FileOf(OldTime, Pattern(n)) : n \in 0..MaxRequests}

ClearInit ==
    /\ file \in ClearLiveFiles
    /\ HostInit
    /\ ~keepOnDisconnect
    /\ wr = NoWrite
    /\ rd = NoRead
    /\ seen = {}
    /\ store = NilStore
    /\ storeFile \in CmdStoreFiles
    /\ cmd = "none"
    /\ written = {}
    /\ CmdQuiet

\* clearCmd from store.Get to its return: a failed load ends it; a failure
\* of clearLiveExportFile is a warning, and the command returns nil.
ClearCmd ==
    \E g \in {StoreGet} :
        /\ cmd = "none"
        /\ call = NoCall
        /\ call' = <<"clear", <<>>, now>>
        /\ before' = [file |-> storeFile, store |-> g[2].store]
        /\ migrations' = IF g[1] THEN migrations + 1 ELSE migrations
        /\ out' = [err |-> g[2].err,
                   count |-> IF g[2].err THEN 0 ELSE Len(g[2].store.Sessions)]
        /\ store' = IF g[2].err THEN g[2].store ELSE ClearAll(g[2].store)
        /\ storeFile' = IF g[2].err THEN storeFile
                        ELSE WriteFile(StoreMarshalIndent(ClearAll(g[2].store)))
        /\ IF g[2].err THEN file' = file
           ELSE file' \in ClearedLiveFiles(file, now)
        /\ UNCHANGED <<pc, keepOnDisconnect, liveData, msg, response, now, captured,
                       last, prev, readVars, cmd, written, saves, chainVars, procVars>>

ClearNext ==
    \/ ClearCmd
    \/ Tick

SpecClear == ClearInit /\ [][ClearNext]_vars

----------------------------------------------------------------------------
(* `rep clear`: claim C26 *)

Cleared == call[1] = "clear" /\ ~out.err

\* C26: after `rep clear` has completed without error, a fresh Load of the
\* store file yields no session, an empty ignore set and an empty primary
\* set, and the live snapshot file holds zero requests.
C26_ClearLeavesNothing ==
    Cleared =>
        /\ ~Load(storeFile, now).err
        /\ Len(Load(storeFile, now).store.Sessions) = 0
        /\ Load(storeFile, now).store.IgnoredDomains = {}
        /\ Load(storeFile, now).store.PrimaryDomains = {}
        /\ file.exists
        /\ ~loadLiveExport(file.bytes).err
        /\ Len(loadLiveExport(file.bytes).Requests) = 0


----------------------------------------------------------------------------
(* `rep save`, one whole command per step, with its early returns. *)

\* The live files `rep save` may find: none, an empty one, one cut before
\* its end, and exports of 0..MaxRequests requests.
SaveLiveFiles ==
    {NoFile, WriteFile(<<>>), Truncated(FileOf(OldTime, Pattern(1)))}
    \cup {FileOf(OldTime, Pattern(n)) : n \in 0..MaxRequests}

SaveInit ==
    /\ file \in SaveLiveFiles
    /\ HostInit
    /\ ~keepOnDisconnect
    /\ wr = NoWrite
    /\ rd = NoRead
    /\ seen = {}
    /\ store = NilStore
    /\ storeFile \in CmdStoreFiles
    /\ cmd = "none"
    /\ written = {}
    /\ CmdQuiet

\* saveCmd: no live file and an empty live session end it with nil, a live
\* file or a store file that does not parse with an error; otherwise the
\* export becomes a session and the store is saved. out.count is the
\* number of requests saved.
SaveLiveCmd ==
    \E note \in Notes :
        LET export == loadLiveExport(file.bytes)
            l      == Load(storeFile, now)
            s      == AddSession(l.store, GenerateSessionID(now, note), note,
                                 export.Requests, now)
            early  == ~file.exists \/ export.err \/ Len(export.Requests) = 0
            saved  == ~early /\ ~l.err
        IN  /\ cmd = "none"
            /\ saved => saves < MaxSaves
            /\ call' = <<"save", note, now>>
            /\ before' = IF early THEN before
                         ELSE [file |-> storeFile, store |-> l.store]
            /\ out' = [err |-> IF ~file.exists THEN FALSE
                               ELSE IF export.err THEN TRUE
                               ELSE IF Len(export.Requests) = 0 THEN FALSE
                               ELSE l.err,
                       count |-> IF saved THEN Len(export.Requests) ELSE 0]
            /\ store' = IF early THEN store ELSE IF l.err THEN l.store ELSE s
            /\ storeFile' = IF saved THEN WriteFile(StoreMarshalIndent(s))
                            ELSE storeFile
            /\ saves' = IF saved THEN saves + 1 ELSE saves
            /\ UNCHANGED <<hostVars, readVars, cmd, written, migrations, chainVars, procVars>>

SaveNext ==
    \/ SaveLiveCmd
    \/ Tick

SpecSave == SaveInit /\ [][SaveNext]_vars

----------------------------------------------------------------------------
(* `rep save`: claim C27 *)

\* A step that is one `rep save`.
SaveStep == call'[1] = "save" /\ now' = now

\* What one `rep save` does, from the files before it to those after it.
SaveEffect ==
    LET export == loadLiveExport(file.bytes)
        old    == Load(storeFile, now)
        new    == Load(storeFile', now)
    IN  /\ file' = file
        /\ (~file.exists \/ (~export.err /\ Len(export.Requests) = 0)) =>
              /\ ~out'.err
              /\ out'.count = 0
              /\ storeFile' = storeFile
              /\ store' = store
        /\ (~out'.err /\ out'.count > 0) =>
              /\ ~old.err /\ ~new.err
              /\ Len(new.store.Sessions) = Len(old.store.Sessions) + 1
              /\ SubSeq(new.store.Sessions, 1, Len(old.store.Sessions))
                    = old.store.Sessions
              /\ new.store.Sessions[Len(new.store.Sessions)].Requests
                    = export.Requests
              /\ new.store.IgnoredDomains = old.store.IgnoredDomains
              /\ new.store.PrimaryDomains = old.store.PrimaryDomains
              /\ store' = new.store

\* C27: `rep save` never modifies the live snapshot file; on success it
\* appends exactly one session holding the live requests in order and
\* leaves the earlier sessions and the ignore and primary sets unchanged;
\* when the live snapshot is missing or has zero requests it creates no
\* session and does not write the store.
C27_SaveAppendsOne == [][SaveStep => SaveEffect]_vars

\* A save has added a session of several requests behind an earlier one.
C27_Witness ==
    /\ call[1] = "save"
    /\ ~out.err
    /\ out.count > 1
    /\ Len(store.Sessions) > 1
    /\ Len(before.store.Sessions) = Len(store.Sessions) - 1
    /\ store.IgnoredDomains # {}


----------------------------------------------------------------------------
(* Store.ListSessions and Store.GetLatestSession on the stores `rep save`  *)
(* builds. Each returns the Store as it leaves it next to its result.      *)

Reverse(seq) == [i \in 1..Len(seq) |-> seq[Len(seq) + 1 - i]]

\* A ListSessions that reverses s.Sessions itself.
ListSessions_InPlace(s) ==
    <<[s EXCEPT !.Sessions = Reverse(s.Sessions)], Reverse(s.Sessions)>>

\* Store.ListSessions: a copy of s.Sessions, reversed
ListSessions(s) == <<s, Reverse(s.Sessions)>>

\* Store.GetLatestSession: the position of the last session; 0 is nil
GetLatestSession(s) == IF Len(s.Sessions) = 0 THEN Nil ELSE Len(s.Sessions)

\* store.Get, then ListSessions (`rep sessions`) and GetLatestSession
\* (`rep list --saved latest`) on that Store.
ListSessionsCmd ==
    LET l == Load(storeFile, now)
        r == ListSessions(l.store)
    IN  /\ cmd = "none"
        /\ ~l.err
        /\ call' = <<"sessions", <<>>, now>>
        /\ before' = [file |-> storeFile, store |-> l.store]
        /\ out' = <<r[2], GetLatestSession(r[1])>>
        /\ store' = r[1]
        /\ UNCHANGED <<hostVars, readVars, storeFile, cmd, written, migrations, saves,
                       chainVars, procVars>>

SessionsNext ==
    \/ SaveCmd
    \/ ListSessionsCmd
    \/ Tick

SpecSessions == LookupInit /\ [][SessionsNext]_vars

----------------------------------------------------------------------------
(* ListSessions: claim C28 *)

Listed == call[1] = "sessions"

\* C28: ListSessions returns all sessions in reverse append order, newest
\* first, and leaves the order of the store's own sessions as it was; on a
\* store that is not empty its first element is the session
\* GetLatestSession returns; GetLatestSession returns nil on an empty store.
C28_ListSessions ==
    Listed =>
        LET appended == before.store.Sessions
            n        == Len(appended)
        IN  /\ Len(out[1]) = n
            /\ \A i \in 1..n : out[1][i] = appended[n + 1 - i]
            /\ store.Sessions = appended
            /\ n > 0 => (out[2] # Nil /\ out[1][1] = store.Sessions[out[2]])
            /\ n = 0 => out[2] = Nil

\* The sessions of a store of MaxSessions sessions, saved at different
\* times, have been listed.
C28_Witness ==
    /\ Listed
    /\ Len(out[1]) = MaxSessions
    /\ out[1][1].Timestamp > out[1][MaxSessions].Timestamp

----------------------------------------------------------------------------
(* The host when os.WriteFile on the snapshot file can fail *)

\* os.WriteFile(dataPath, content, 0644) in saveLiveDataUnlocked: the file
\* written whole and a nil error, or an error with the file as it was (the
\* open failed) or left empty (the open truncated it, the write failed).
WriteOutcomes(f, content) ==
    {[file |-> WriteFile(content), err |-> FALSE],
     [file |-> f, err |-> TRUE],
     [file |-> OpenTrunc, err |-> TRUE]}

\* The host starts with no snapshot file or with the one an earlier run left.
WriteInit ==
    /\ file \in {NoFile, FileOf(OldTime, Pattern(1))}
    /\ HostInit
    /\ ~keepOnDisconnect
    /\ Quiet
    /\ seen = {}

\* One turn of the loop, handleMessage with the outcome of its
\* saveLiveDataUnlocked call: the handler does not look at the returned error.
DeliverWrite(m) ==
    /\ pc = "loop"
    /\ LET r == handleMessage(liveData, m, now)
       IN  \E w \in (IF r.save
                     THEN WriteOutcomes(file, MarshalIndent(r.data))
                     ELSE {[file |-> file, err |-> FALSE]}) :
               /\ liveData' = r.data
               /\ file' = w.file
               /\ response' = r.response
               /\ call' = <<"handle", m.Action, now>>
               /\ out' = <<r.save, w.err>>
    /\ msg' = m
    /\ captured' = IF m.Request # Nil THEN m.Request ELSE captured
    /\ last' = "msg"
    /\ prev' = Snapshot
    /\ UNCHANGED <<pc, keepOnDisconnect, now>>
    /\ UNCHANGED <<readVars, storeVars, before, migrations, saves, chainVars, procVars>>

AddWrite ==
    /\ captured < MaxWrites
    /\ DeliverWrite(Msg("add", captured + 1, FALSE, <<>>))

SyncWrite == \E q \in SyncLists : DeliverWrite(Msg("sync", Nil, TRUE, q))

ClearWrite == DeliverWrite(Msg("clear", Nil, FALSE, <<>>))

PingWrite == DeliverWrite(Msg("ping", Nil, FALSE, <<>>))

WriteNext ==
    \/ Start
    \/ AddWrite
    \/ SyncWrite
    \/ ClearWrite
    \/ PingWrite
    \/ Tick

SpecWrite == WriteInit /\ [][WriteNext]_vars

----------------------------------------------------------------------------
(* Write failures: claim C29 *)

Handled == call[1] = "handle"

WriteFailed == Handled /\ out[1] /\ out[2]

\* C29: when writing the snapshot file fails during add, sync or clear, the
\* response does not report success.
C29_WriteFailurePropagated ==
    (WriteFailed /\ call[2] \in {"add", "sync", "clear"}) => ~response.success

----------------------------------------------------------------------------
(* Saved sessions in memory: the commands that read a session of the Store *)
(* store.Get returned. A request is its URL and its derived fields.        *)

\* The URLs of saved requests: without a query, with one, and one that
\* url.Parse rejects.
KeptURLs ==
    {URLText(parts) : parts \in {<<<<"h">>, <<"/", "p">>, <<"-">>>>,
                                 <<<<"h">>, <<"/", "p">>, <<"q">>>>,
                                 <<<<"h">>, <<"/", "%">>, <<"-">>>>}}

\* The request lists of a session: 1 to MaxKept of these URLs.
KeptLists == UNION {[1..n -> KeptURLs] : n \in 1..MaxKept}

\* Load, lines 175-179: the requests of every session as decoded from the
\* store file (Domain and Path are not stored), with their fields computed
LoadSession(session) ==
    [session EXCEPT !.Requests =
        [j \in 1..Len(@) |-> ComputeRequestFields(DecodedRequest(@[j].URL))]]
LoadSessions(s) ==
    [s EXCEPT !.Sessions = [i \in 1..Len(@) |-> LoadSession(@[i])]]

\* AddSession, lines 271-274, on the requests of an export
ComputedRequests(urls) ==
    [j \in 1..Len(urls) |-> ComputeRequestFields(DecodedRequest(urls[j]))]

\* NewTempStore on a slice: the loop writes through s.Requests into the
\* array of the slice it was given.
TempRequests(requests) ==
    [j \in 1..Len(requests) |-> TempRequestFields(requests[j])]

\* The Store after NewTempStore(session.Requests) for its session i
TempSession(s, i) ==
    [s EXCEPT !.Sessions[i].Requests = TempRequests(@)]

\* Store.Filter with the domain option: copies of the matching requests
FilterDomain(requests, domain) ==
    SelectSeq(requests, LAMBDA r : domain = <<>> \/ r.Domain = domain)

\* GetDomains, lines 645-650: the path up to a "?" that is not its first
\* character
PathOnly(path) ==
    LET mark == IndexOf(path, "?")
    IN  IF mark > 1 THEN SubSeq(path, 1, mark - 1) ELSE path

\* fmt.Sprintf("%s %s", req.Method, pathOnly)
Endpoint(req) == <<req.Method, " ">> \o PathOnly(req.Path)

\* A loop body that stops counting a domain's requests at the endpoint cap
DomainStep_StopsAtCap(s, domainMap, req) ==
    IF req.Domain = <<>> THEN domainMap
    ELSE LET exists   == req.Domain \in DOMAIN domainMap
             info     == IF exists THEN domainMap[req.Domain]
                         ELSE [Domain |-> req.Domain, Methods |-> << >>,
                               RequestCount |-> 0, Endpoints |-> <<>>,
                               IsIgnored |-> req.Domain \in s.IgnoredDomains,
                               IsPrimary |-> req.Domain \in s.PrimaryDomains]
             endpoint == Endpoint(req)
             found    == \E k \in 1..Len(info.Endpoints) : info.Endpoints[k] = endpoint
             full     == Len(info.Endpoints) >= MaxEndpoints
             counted  == IF req.Method \in DOMAIN info.Methods
                         THEN info.Methods[req.Method] ELSE 0
             next     == IF ~found /\ full THEN info
                         ELSE [info EXCEPT
                             !.RequestCount = @ + 1,
                             !.Methods = [m \in DOMAIN @ \cup {req.Method} |->
                                             IF m = req.Method THEN counted + 1
                                             ELSE @[m]],
                             !.Endpoints = IF ~found THEN Append(@, endpoint) ELSE @]
         IN  [d \in DOMAIN domainMap \cup {req.Domain} |->
                 IF d = req.Domain THEN next ELSE domainMap[d]]

\* GetDomains, lines 624-663: the loop body for one request
DomainStep(s, domainMap, req) ==
    IF req.Domain = <<>> THEN domainMap
    ELSE LET exists   == req.Domain \in DOMAIN domainMap
             info     == IF exists THEN domainMap[req.Domain]
                         ELSE [Domain |-> req.Domain, Methods |-> << >>,
                               RequestCount |-> 0, Endpoints |-> <<>>,
                               IsIgnored |-> req.Domain \in s.IgnoredDomains,
                               IsPrimary |-> req.Domain \in s.PrimaryDomains]
             endpoint == Endpoint(req)
             found    == \E k \in 1..Len(info.Endpoints) : info.Endpoints[k] = endpoint
             full     == Len(info.Endpoints) >= MaxEndpoints
             counted  == IF req.Method \in DOMAIN info.Methods
                         THEN info.Methods[req.Method] ELSE 0
             next     == [info EXCEPT
                             !.RequestCount = @ + 1,
                             !.Methods = [m \in DOMAIN @ \cup {req.Method} |->
                                             IF m = req.Method THEN counted + 1
                                             ELSE @[m]],
                             !.Endpoints = IF ~found /\ ~full
                                           THEN Append(@, endpoint) ELSE @]
         IN  [d \in DOMAIN domainMap \cup {req.Domain} |->
                 IF d = req.Domain THEN next ELSE domainMap[d]]

RECURSIVE DomainLoop(_, _, _)
DomainLoop(s, i, domainMap) ==
    IF i > Len(s.Requests) THEN domainMap
    ELSE DomainLoop(s, i + 1, DomainStep(s, domainMap, s.Requests[i]))

\* Store.GetDomains: the DomainInfo of every domain, by domain; the slice it
\* returns holds them by falling request count.
GetDomains(s) == DomainLoop(s, 1, << >>)

\* The sessions `--saved` can name: the latest, or one by identifier.
NamedSessions(s) ==
    {GetLatestSession(s)}
        \cup {GetSession(s, s.Sessions[i].ID) : i \in 1..Len(s.Sessions)}

\* A session an earlier command saved, as Load returns it.
KeptSession(i, urls) ==
    [Requests |-> ComputedRequests(urls), ID |-> GenerateSessionID(OldTime, i),
     Timestamp |-> OldTime, Note |-> i]

\* The Store of sessions saved by earlier commands.
KeptInit ==
    /\ file = NoFile
    /\ HostInit
    /\ ~keepOnDisconnect
    /\ wr = NoWrite
    /\ rd = NoRead
    /\ seen = {}
    /\ \E n \in 0..(MaxKeptSessions - 1) : \E lists \in [1..n -> KeptLists] :
          store = [NewStore EXCEPT
                      !.Sessions = [i \in 1..n |-> KeptSession(i, lists[i])]]
    /\ storeFile = NoFile
    /\ cmd = "none"
    /\ written = {}
    /\ CmdQuiet

\* `rep save` and `rep import` in a new process: store.Get, AddSession
SaveKept ==
    \E note \in Notes, urls \in KeptLists, s \in {LoadSessions(store)} :
        /\ Len(s.Sessions) < MaxKeptSessions
        /\ saves < MaxSaves
        /\ saves' = saves + 1
        /\ call' = <<"add session", note, now>>
        /\ before' = [file |-> storeFile, store |-> s]
        /\ store' = AddSession(s, GenerateSessionID(now, note), note,
                               ComputedRequests(urls), now)
        /\ out' = Len(s.Sessions) + 1
        /\ UNCHANGED <<hostVars, readVars, storeFile, cmd, written,
                       migrations, chainVars, procVars>>

\* `rep list --saved` in a new process: store.Get, the session, NewTempStore
\* on its requests, Filter
ListKept ==
    \E domain \in {<<>>, <<"h">>}, s \in {LoadSessions(store)} :
        \E i \in NamedSessions(s) \ {Nil} :
            \E temp \in {TempSession(s, i)} :
                /\ call' = <<"list saved", i, now>>
                /\ before' = [file |-> storeFile, store |-> s]
                /\ store' = temp
                /\ out' = FilterDomain(temp.Sessions[i].Requests, domain)
                /\ UNCHANGED <<hostVars, readVars, storeFile, cmd, written,
                               migrations, saves, chainVars, procVars>>

\* `rep domains --saved` in a new process: store.Get, the session,
\* NewTempStore on its requests, GetDomains
DomainsKept ==
    \E s \in {LoadSessions(store)} :
        \E i \in NamedSessions(s) \ {Nil} :
            \E temp \in {TempSession(s, i)} :
                /\ call' = <<"domains saved", i, now>>
                /\ before' = [file |-> storeFile, store |-> s]
                /\ store' = temp
                /\ out' = GetDomains(NewTempStore(temp.Sessions[i].Requests, temp))
                /\ UNCHANGED <<hostVars, readVars, storeFile, cmd, written,
                               migrations, saves, chainVars, procVars>>

KeptNext ==
    \/ SaveKept
    \/ ListKept
    \/ DomainsKept
    \/ Tick

SpecKept == KeptInit /\ [][KeptNext]_vars

----------------------------------------------------------------------------
(* Sessions are never mutated: claim C30 *)

KeptCommand == call[1] \in {"add session", "list saved", "domains saved"}

\* C30: a command that builds a transient working set from a session's
\* requests, filters, aggregates domains or adds a further session leaves
\* every session that was in the Store as it was: its ID, note, timestamp
\* and every field of its requests, derived domain and path included.
C30_SessionsKept ==
    KeptCommand =>
        /\ Len(store.Sessions) >= Len(before.store.Sessions)
        /\ \A i \in 1..Len(before.store.Sessions) :
              store.Sessions[i] = before.store.Sessions[i]

----------------------------------------------------------------------------
(* store.Get in one process: the package variables instance and once, and  *)
(* the Store object instance points at, held in store.                     *)

\* A process that has not called store.Get yet. A pointer to a Store is the
\* number of the load that made the object.
GetInit ==
    /\ file = NoFile
    /\ HostInit
    /\ ~keepOnDisconnect
    /\ wr = NoWrite
    /\ rd = NoRead
    /\ seen = {}
    /\ store = NilStore
    /\ storeFile \in CmdStoreFiles
    /\ cmd = "none"
    /\ written = {}
    /\ CmdQuiet

\* A Get that calls Load every time
Get_Reloads(inst, done, f, t, n) ==
    LET l == Load(f, t)
    IN  [instance |-> IF l.err THEN Nil ELSE n + 1,
         result   |-> [store |-> IF l.err THEN Nil ELSE n + 1, err |-> l.err],
         object   |-> l.store,
         loaded   |-> TRUE]

\* Get: once.Do runs Load the first time only; loadErr is a local variable,
\* nil in every call in which once.Do does not run its function
Get(inst, done, f, t, n) ==
    IF ~done
    THEN LET l == Load(f, t)
         IN  [instance |-> IF l.err THEN Nil ELSE n + 1,
              result   |-> [store |-> IF l.err THEN Nil ELSE n + 1, err |-> l.err],
              object   |-> l.store,
              loaded   |-> TRUE]
    ELSE [instance |-> inst,
          result   |-> [store |-> inst, err |-> FALSE],
          object   |-> store,
          loaded   |-> FALSE]

\* One call of store.Get
GetCall ==
    /\ Len(got) < MaxGets
    /\ \E g \in {Get(instance, onceDone, storeFile, now, loads)} :
          /\ got' = Append(got, g.result)
          /\ instance' = g.instance
          /\ store' = g.object
          /\ loads' = IF g.loaded THEN loads + 1 ELSE loads
    /\ onceDone' = TRUE
    /\ call' = <<"get", Len(got) + 1, now>>
    /\ UNCHANGED <<hostVars, readVars, storeFile, cmd, written, out, before,
                   migrations, saves, chainVars, input>>

\* The Store a pointer leads to: the pointer of the latest load leads to the
\* object held in store, an earlier one to an object nobody changes here.
Deref(ptr) == IF ptr = instance THEN store ELSE NilStore

\* Store.Ignore through the reference the i-th call returned
IgnoreVia ==
    \E i \in 1..Len(got), d \in Domains :
        /\ got[i].store # Nil
        /\ got[i].store = instance
        /\ call' = <<"ignore via", i, d>>
        /\ before' = [file |-> storeFile, store |-> store]
        /\ store' = Ignore(store, <<d>>).store
        /\ UNCHANGED <<hostVars, readVars, storeFile, cmd, written, out,
                       migrations, saves, chainVars, procVars>>

\* IsIgnored read through the reference the j-th call returned
ReadVia ==
    \E j \in 1..Len(got) :
        /\ got[j].store # Nil
        /\ call' = <<"read via", j, now>>
        /\ out' = Deref(got[j].store).IgnoredDomains
        /\ UNCHANGED <<hostVars, readVars, storeVars, before, migrations, saves,
                       chainVars, procVars>>

GetNext ==
    \/ GetCall
    \/ IgnoreVia
    \/ ReadVia

SpecGet == GetInit /\ [][GetNext]_vars

----------------------------------------------------------------------------
(* The singleton: claims C31, C36 *)

Succeeded(i) == ~got[i].err

\* C31: in one process the store file is read at most once, every call of
\* Get that succeeds returns the same Store instance, and what was changed
\* through one reference is read through every other.
C31_Singleton ==
    /\ loads <= 1
    /\ \A i, j \in 1..Len(got) :
          (Succeeded(i) /\ Succeeded(j)) => got[i].store = got[j].store
    /\ call[1] = "read via" => out = store.IgnoredDomains

\* A domain ignored through the first reference has been read through the
\* last one.
C31_Witness ==
    /\ Len(got) = MaxGets
    /\ call[1] = "read via"
    /\ call[2] = MaxGets
    /\ got[1].store # Nil
    /\ out # before.store.IgnoredDomains
    /\ loads = 1

\* C36: no call of Get returns a nil Store with a nil error, and on a store
\* file that does not parse every call of Get returns an error.
C36_GetNeverNilNil ==
    \A i \in 1..Len(got) :
        /\ ~(got[i].store = Nil /\ ~got[i].err)
        /\ Load(storeFile, now).err => got[i].err

----------------------------------------------------------------------------
(* The ingest loop on a stream of bytes. The bytes of a stream are 0, 2,   *)
(* "{" (123) and "}" (125): the only JSON text they spell is "{}".         *)

StreamBytes == {0, 2, 123, 125}
Streams == UNION {[1..n -> StreamBytes] : n \in 0..MaxInput}

\* binary.LittleEndian.Uint32 of the four bytes of a length prefix
LittleEndian(b) == b[1] + 256 * b[2] + 65536 * b[3] + 16777216 * b[4]

\* json.Unmarshal(content, &msg): "{}" decodes to a Message without fields
DecodeMessage(content) ==
    IF content = <<123, 125>> THEN [msg |-> NoMsg, err |-> ""]
    ELSE [msg |-> NoMsg, err |-> "json"]

\* A readMessage that reports a stream at its end as a short read
readMessage_ShortAtEnd(in) ==
    IF Len(in) < PrefixLen
    THEN [msg |-> NoMsg, err |-> "unexpected EOF", rest |-> <<>>]
    ELSE LET length  == LittleEndian(in)
             body    == From(in, PrefixLen + 1)
             decoded == DecodeMessage(SubSeq(body, 1, length))
         IN  IF length > 0 /\ Len(body) < length
             THEN [msg |-> NoMsg, err |-> "unexpected EOF", rest |-> <<>>]
             ELSE [msg |-> decoded.msg, err |-> decoded.err,
                   rest |-> From(body, length + 1)]

\* readMessage on the bytes not read yet: binary.Read and io.ReadFull return
\* io.EOF when they get no byte at all and io.ErrUnexpectedEOF when they get
\* fewer than they need
readMessage(in) ==
    IF Len(in) = 0
    THEN [msg |-> NoMsg, err |-> "EOF", rest |-> <<>>]
    ELSE IF Len(in) < PrefixLen
    THEN [msg |-> NoMsg, err |-> "unexpected EOF", rest |-> <<>>]
    ELSE LET length  == LittleEndian(in)
             body    == From(in, PrefixLen + 1)
             decoded == DecodeMessage(SubSeq(body, 1, length))
         IN  IF length > 0 /\ Len(body) = 0
             THEN [msg |-> NoMsg, err |-> "EOF", rest |-> <<>>]
             ELSE IF length > 0 /\ Len(body) < length
             THEN [msg |-> NoMsg, err |-> "unexpected EOF", rest |-> <<>>]
             ELSE [msg |-> decoded.msg, err |-> decoded.err,
                   rest |-> From(body, length + 1)]

\* The host is started on a stream that ends after these bytes.
IngestInit ==
    /\ file \in {NoFile, FileOf(OldTime, Pattern(1))}
    /\ HostInit
    /\ wr = NoWrite
    /\ rd = NoRead
    /\ store = NilStore
    /\ storeFile = NoFile
    /\ cmd = "none"
    /\ written = {}
    /\ seen = {}
    /\ NoCommand
    /\ input \in Streams

\* main(), lines 85-94, with the stream untouched
IngestStart ==
    /\ pc = "boot"
    /\ liveData' = bindSession(loadLiveData(file), now)
    /\ pc' = "loop"
    /\ last' = "start"
    /\ prev' = Snapshot
    /\ UNCHANGED <<keepOnDisconnect, file, msg, response, now, captured>>
    /\ UNCHANGED <<readVars, storeVars, cmdVars, chainVars, procVars>>

\* One turn of the loop in which readMessage returns a message
ReadFrame ==
    /\ pc = "loop"
    /\ \E r \in {readMessage(input)} :
          /\ r.err = ""
          /\ \E h \in {handleMessage(liveData, r.msg, now)} :
                /\ liveData' = h.data
                /\ file' = IF h.save THEN WriteFile(MarshalIndent(h.data)) ELSE file
                /\ response' = h.response
          /\ msg' = r.msg
          /\ input' = r.rest
          /\ call' = <<"read", r.err, Len(input)>>
    /\ last' = "msg"
    /\ prev' = Snapshot
    /\ UNCHANGED <<pc, keepOnDisconnect, now, captured>>
    /\ UNCHANGED <<readVars, storeVars, out, before, migrations, saves, chainVars,
                   instance, onceDone, loads, got>>

\* One turn in which readMessage returns an error other than io.EOF: continue
ReadError ==
    /\ pc = "loop"
    /\ \E r \in {readMessage(input)} :
          /\ r.err \notin {"", "EOF"}
          /\ input' = r.rest
          /\ call' = <<"read", r.err, Len(input)>>
    /\ last' = "skip"
    /\ prev' = Snapshot
    /\ UNCHANGED <<pc, keepOnDisconnect, liveData, file, msg, response, now,
                   captured>>
    /\ UNCHANGED <<readVars, storeVars, out, before, migrations, saves, chainVars,
                   instance, onceDone, loads, got>>

\* The turn in which readMessage returns io.EOF: clear unless --keep, break
ReadEOF ==
    /\ pc = "loop"
    /\ \E r \in {readMessage(input)} :
          /\ r.err = "EOF"
          /\ input' = r.rest
    /\ \E d \in {onDisconnect(liveData, file, keepOnDisconnect, now)} :
          /\ liveData' = d.data
          /\ file' = d.file
    /\ pc' = "done"
    /\ last' = "eof"
    /\ prev' = Snapshot
    /\ UNCHANGED <<keepOnDisconnect, msg, response, now, captured>>
    /\ UNCHANGED <<readVars, storeVars, cmdVars, chainVars,
                   instance, onceDone, loads, got>>

IngestNext ==
    \/ IngestStart
    \/ ReadFrame
    \/ ReadError
    \/ ReadEOF

SpecIngest == IngestInit /\ [][IngestNext]_vars

\* The host is a running process: it takes its next step.
SpecIngestLive == SpecIngest /\ WF_vars(IngestNext)

----------------------------------------------------------------------------
(* Termination of the ingest loop: claim C32 *)

\* C32: the ingest loop ends once the stream is at its end, whatever bytes
\* came before: whole frames, frames that are not JSON, a stream that ends
\* inside a length prefix or inside a payload.
C32_IngestTerminates == <>(pc = "done")

\* The loop has ended after a read that stopped inside a prefix or a payload.
C32_Witness ==
    /\ pc = "done"
    /\ call[1] = "read"
    /\ call[2] = "unexpected EOF"

----------------------------------------------------------------------------
(* Messages the host does not handle: claim C33 *)

Rejected ==
    /\ last = "msg"
    /\ \/ msg.Action \notin {"add", "sync", "clear", "ping"}
       \/ msg.Action = "add" /\ msg.Request = Nil
       \/ msg.Action = "sync" /\ ~msg.HasRequests

\* C33: a message with another action, an add without a request and a sync
\* without a request list are answered with success = false and an error
\* text, and leave the buffer, the session identifier and the snapshot file
\* as they were.
C33_RejectedUnchanged ==
    Rejected =>
        /\ ~response.success
        /\ response.error # ""
        /\ liveData = prev.data
        /\ file = prev.file

\* A sync without a list has been answered while the buffer held requests.
C33_Witness ==
    /\ Rejected
    /\ msg.Action = "sync"
    /\ Len(liveData.Requests) > 0
    /\ file.exists

----------------------------------------------------------------------------
(* `rep domains`: GetDomains on the transient store of an export *)

\* The requests of an export: a method and the parts of a URL. Two methods
\* on two paths of one host, a URL with a query, a second host and a URL
\* without a host.
AggregatedKinds ==
    ({"GET", "POST"}
        \X {<<<<"h">>, path, <<"-">>>> : path \in {<<"/", "p">>, <<"/", "q">>}})
    \cup ({"GET"}
        \X {<<<<"h">>, <<"/", "p">>, <<"q">>>>, <<<<"g">>, <<"/", "p">>, <<"-">>>>,
            <<<<>>, <<"/", "p">>, <<"-">>>>})

\* A request of the export as json.Unmarshal leaves it
ExportRequest(kind) == [DecodedRequest(URLText(kind[2])) EXCEPT !.Method = kind[1]]

\* NewTempStore(export.Requests), domains.go line 76
AggregatedStore(kinds) ==
    [NewStore EXCEPT
        !.Requests = TempRequests([j \in 1..Len(kinds) |-> ExportRequest(kinds[j])])]

\* `rep domains`, run once, on an export of these requests
DomainsCall ==
    \E n \in 0..MaxAggregated : \E kinds \in [1..n -> AggregatedKinds] :
        /\ call = NoCall
        /\ call' = <<"domains", kinds, now>>
        /\ out' = GetDomains(AggregatedStore(kinds))
        /\ UNCHANGED <<hostVars, readVars, storeVars, before, migrations, saves,
                       chainVars, procVars>>

DomainsNext ==
    \/ DomainsCall
    \/ Tick

SpecDomains == FingerprintInit /\ [][DomainsNext]_vars

----------------------------------------------------------------------------
(* Domain aggregation: claim C34 *)

Aggregated == call[1] = "domains"

RECURSIVE SumOf(_)
SumOf(f) ==
    IF DOMAIN f = {} THEN 0
    ELSE LET k == CHOOSE x \in DOMAIN f : TRUE
         IN  f[k] + SumOf([x \in DOMAIN f \ {k} |-> f[x]])

\* The requests of a domain in the export, and their "METHOD path" signatures
\* with the path taken from the URL without its query.
RequestsOf(kinds, d) == {j \in 1..Len(kinds) : kinds[j][2][1] = d}
SignaturesOf(kinds, d) ==
    {<<kinds[j][1], " ">> \o kinds[j][2][2] : j \in RequestsOf(kinds, d)}

\* C34: GetDomains has one entry per domain that is not empty; its request
\* count is the number of requests of that domain, its counts by method sum
\* to the request count, and its endpoints are distinct "METHOD path"
\* signatures without the query string, at most MaxEndpoints of them, every one
\* of them when the domain has no more; requests past the cap are counted.
C34_DomainAggregation ==
    Aggregated =>
        LET kinds == call[2]
        IN  /\ DOMAIN out = {kinds[j][2][1] : j \in 1..Len(kinds)} \ {<<>>}
            /\ \A d \in DOMAIN out :
                  LET info == out[d]
                      n    == Len(info.Endpoints)
                  IN  /\ info.Domain = d
                      /\ info.RequestCount = Cardinality(RequestsOf(kinds, d))
                      /\ SumOf(info.Methods) = info.RequestCount
                      /\ n <= MaxEndpoints
                      /\ \A a, b \in 1..n :
                            a # b => info.Endpoints[a] # info.Endpoints[b]
                      /\ \A a \in 1..n :
                            info.Endpoints[a] \in SignaturesOf(kinds, d)
                      /\ Cardinality(SignaturesOf(kinds, d)) <= MaxEndpoints
                            => n = Cardinality(SignaturesOf(kinds, d))

\* A domain with more signatures than the cap, one of its URLs with a query.
C34_Witness ==
    /\ Aggregated
    /\ <<"h">> \in DOMAIN out
    /\ Len(out[<<"h">>].Endpoints) = MaxEndpoints
    /\ out[<<"h">>].RequestCount > MaxEndpoints
    /\ Cardinality(SignaturesOf(call[2], <<"h">>)) > MaxEndpoints
    /\ \E j \in 1..Len(call[2]) : call[2][j][2][3] = <<"q">>

----------------------------------------------------------------------------
(* The host when the extension sends a request it has sent before *)

\* The request the number r stands for: its ID is given by the extension.
LiveRequest(r) ==
    [ID |-> <<"h", "_", ToString(r)>>, Timestamp |-> StartTime,
     Method |-> <<"G">>, URL |-> <<"u">>, Body |-> <<>>, OriginalID |-> <<>>]

\* One turn of the loop on an add message, the extension's count as given
DeliverAdd(r, count) ==
    /\ pc = "loop"
    /\ Len(liveData.Requests) < MaxResent
    /\ \E h \in {handleMessage(liveData, Msg("add", r, FALSE, <<>>), now)} :
          /\ liveData' = h.data
          /\ file' = IF h.save THEN WriteFile(MarshalIndent(h.data)) ELSE file
          /\ response' = h.response
    /\ msg' = Msg("add", r, FALSE, <<>>)
    /\ captured' = count
    /\ last' = "msg"
    /\ prev' = Snapshot
    /\ UNCHANGED <<pc, keepOnDisconnect, now>>
    /\ UNCHANGED <<readVars, storeVars, cmdVars, chainVars, procVars>>

\* The extension sends a request it has just captured.
AddFresh ==
    /\ captured < MaxWrites
    /\ DeliverAdd(captured + 1, captured + 1)

\* The extension sends again a request it has sent.
AddAgain == \E r \in 1..captured : DeliverAdd(r, captured)

ResendNext ==
    \/ Start
    \/ AddFresh
    \/ AddAgain
    \/ RecvClear
    \/ Tick

SpecResend == WriteInit /\ [][ResendNext]_vars

----------------------------------------------------------------------------
(* One request per identity: claim C35 *)

\* C35: after any sequence of adds no two entries of the live buffer have
\* the same fingerprint.
C35_OnePerIdentity ==
    pc = "loop" =>
        \A i, j \in 1..Len(liveData.Requests) :
            i # j => RequestFingerprint(LiveRequest(liveData.Requests[i]))
                        # RequestFingerprint(LiveRequest(liveData.Requests[j]))

----------------------------------------------------------------------------
(* Session identifiers: claim C37 *)

\* C37: after any sequence of save commands the sessions of the store have
\* pairwise distinct IDs, and GetSession with the full ID of a session
\* returns that session.
C37_DistinctSessionIDs ==
    call[1] = "save" =>
        /\ \A i, j \in 1..Len(store.Sessions) :
              i # j => store.Sessions[i].ID # store.Sessions[j].ID
        /\ \A i \in 1..Len(store.Sessions) :
              GetSession(store, store.Sessions[i].ID) = i

----------------------------------------------------------------------------
(* `rep clear` in a query process while the host runs *)

\* clearLiveExportFile succeeding while the host is in its loop: the empty
\* export is written over the snapshot file; the host's memory is its own.
ClearLiveWhileRunning ==
    /\ pc = "loop"
    /\ call = NoCall
    /\ call' = <<"clear live", captured, now>>
    /\ file' = WriteFile(EmptyExport(now))
    /\ UNCHANGED <<pc, keepOnDisconnect, liveData, msg, response, now, captured,
                   last, prev>>
    /\ UNCHANGED <<readVars, storeVars, out, before, migrations, saves, chainVars,
                   procVars>>

LiveClearNext ==
    \/ Start
    \/ AddFresh
    \/ RecvClear
    \/ RecvPing
    \/ ClearLiveWhileRunning
    \/ Tick

SpecLiveClear == WriteInit /\ [][LiveClearNext]_vars

----------------------------------------------------------------------------
(* Cleared requests stay cleared: claim C38 *)

\* An add has been handled after the query process cleared the snapshot.
AddedAfterClear == call[1] = "clear live" /\ captured > call[2]

\* C38: after the add that follows a clear by the query process, the
\* snapshot file holds only requests added after that clear.
C38_ClearedStayCleared ==
    AddedAfterClear =>
        /\ ~Persisted.err
        /\ \A i \in 1..Len(Persisted.data.Requests) :
              Persisted.data.Requests[i] > call[2]
              /\ Persisted.data.Requests[i] <= captured

----------------------------------------------------------------------------
(* The path of the live snapshot. A path is the sequence of its separators *)
(* "/" and its names; "~", "." and ".." are names.                         *)

\* The names between the separators of a path, empty ones included
RECURSIVE Split(_)
Split(path) ==
    LET slash == IndexOf(path, "/")
    IN  IF slash = 0 THEN <<path>>
        ELSE <<SubSeq(path, 1, slash - 1)>> \o Split(From(path, slash + 1))

\* filepath.Clean on the names of a path: empty names and "." go, ".." takes
\* the name before it, or stays at the front of a path that is not rooted
RECURSIVE CleanNames(_, _, _)
CleanNames(names, kept, rooted) ==
    IF names = <<>> THEN kept
    ELSE LET name == Head(names)
             next == IF name = <<>> \/ name = <<".">> THEN kept
                     ELSE IF name # <<"..">> THEN Append(kept, name)
                     ELSE IF kept # <<>> /\ kept[Len(kept)] # <<"..">>
                          THEN SubSeq(kept, 1, Len(kept) - 1)
                     ELSE IF rooted THEN kept
                     ELSE Append(kept, name)
         IN  CleanNames(Tail(names), next, rooted)

RECURSIVE JoinNames(_)
JoinNames(names) ==
    IF names = <<>> THEN <<>>
    ELSE IF Len(names) = 1 THEN names[1]
    ELSE names[1] \o <<"/">> \o JoinNames(Tail(names))

\* filepath.Clean
Clean(path) ==
    IF path = <<>> THEN <<".">>
    ELSE LET rooted == path[1] = "/"
             names  == CleanNames(Split(path), <<>>, rooted)
         IN  IF rooted THEN <<"/">> \o JoinNames(names)
             ELSE IF names = <<>> THEN <<".">>
             ELSE JoinNames(names)

\* filepath.Join: the elements that are not empty, joined and cleaned
Join(elems) ==
    LET given == SelectSeq(elems, LAMBDA el : el # <<>>)
    IN  IF given = <<>> THEN <<>> ELSE Clean(JoinNames(given))

\* os.UserHomeDir on Linux: $HOME, an error when it is empty
UserHomeDir(env) == [err |-> env.HOME = <<>>, path |-> env.HOME]

\* expandHomePath, the same text in main.go and store.go
expandHomePath(path, env) ==
    IF path = <<"~">> \/ StartsWith(path, <<"~", "/">>)
    THEN LET home == UserHomeDir(env)
         IN  IF home.err THEN [err |-> TRUE, path |-> <<>>]
             ELSE IF path = <<"~">> THEN [err |-> FALSE, path |-> home.path]
             ELSE [err |-> FALSE, path |-> Join(<<home.path, From(path, 3)>>)]
    ELSE [err |-> FALSE, path |-> path]

\* A getDataPath that takes the override as it is
getDataPath_NoExpand(env) ==
    IF env.REPLIVE_PATH # <<>> THEN env.REPLIVE_PATH
    ELSE IF env.XDG_DATA_HOME # <<>>
    THEN Join(<<env.XDG_DATA_HOME, <<"rep-cli">>, <<"live.json">>>>)
    ELSE Join(<<UserHomeDir(env).path, <<".local">>, <<"share">>, <<"rep-cli">>,
                <<"live.json">>>>)

\* getDataPath of the host
getDataPath(env) ==
    LET expanded == expandHomePath(env.REPLIVE_PATH, env)
    IN  IF env.REPLIVE_PATH # <<>> /\ ~expanded.err THEN expanded.path
        ELSE IF env.XDG_DATA_HOME # <<>>
        THEN Join(<<env.XDG_DATA_HOME, <<"rep-cli">>, <<"live.json">>>>)
        ELSE Join(<<UserHomeDir(env).path, <<".local">>, <<"share">>,
                    <<"rep-cli">>, <<"live.json">>>>)

\* GetStorePath
GetStorePath(env) ==
    IF env.XDG_DATA_HOME # <<>>
    THEN [err |-> FALSE, path |-> Join(<<env.XDG_DATA_HOME, <<"rep-cli">>>>)]
    ELSE LET home == UserHomeDir(env)
         IN  IF home.err THEN [err |-> TRUE, path |-> <<>>]
             ELSE [err |-> FALSE,
                   path |-> Join(<<home.path, <<".local">>, <<"share">>,
                                   <<"rep-cli">>>>)]

\* GetLiveFilePath of the query process
GetLiveFilePath(env) ==
    IF env.REPLIVE_PATH # <<>> THEN expandHomePath(env.REPLIVE_PATH, env)
    ELSE LET storePath == GetStorePath(env)
         IN  IF storePath.err THEN [err |-> TRUE, path |-> <<>>]
             ELSE [err |-> FALSE,
                   path |-> Join(<<storePath.path, <<"live.json">>>>)]

\* The environments: an override that is absent, the home directory, below
\* it, absolute, relative, or a name that begins with "~"; a data home that
\* is absent, absolute, with a trailing separator, relative, or with "..";
\* a home directory that is unknown, plain, or with a trailing separator.
Environments ==
    [REPLIVE_PATH : {<<>>, <<"~">>, <<"~", "/">>, <<"~", "/", "x">>,
                     <<"/", "x">>, <<"x", "/">>, <<"~x">>},
     XDG_DATA_HOME : {<<>>, <<"/", "d">>, <<"/", "d", "/">>, <<"d">>,
                      <<"/", "d", "/", "..">>},
     HOME : {<<>>, <<"/", "h">>, <<"/", "h", "/">>}]

\* The host and a query process resolve the path in one environment.
ResolvePaths ==
    \E env \in Environments :
        /\ call = NoCall
        /\ call' = <<"paths", env, now>>
        /\ out' = <<getDataPath(env), GetLiveFilePath(env)>>
        /\ UNCHANGED <<hostVars, readVars, storeVars, before, migrations, saves,
                       chainVars, procVars>>

PathsNext ==
    \/ ResolvePaths
    \/ Tick

SpecPaths == FingerprintInit /\ [][PathsNext]_vars

----------------------------------------------------------------------------
(* One path for both processes: claim C39 *)

Resolved == call[1] = "paths"

\* C39: in every environment with a known home directory the host and the
\* query process resolve the same path: the override with a leading "~"
\* expanded, else the data home plus rep-cli/live.json, else the default
\* directory below the home directory.
C39_SamePath ==
    (Resolved /\ call[2].HOME # <<>>) =>
        LET env == call[2]
        IN  /\ ~out[2].err
            /\ out[1] = out[2].path
            /\ env.REPLIVE_PATH # <<>> =>
                  out[1] = expandHomePath(env.REPLIVE_PATH, env).path
            /\ (env.REPLIVE_PATH = <<>> /\ env.XDG_DATA_HOME # <<>>) =>
                  out[1] = Join(<<env.XDG_DATA_HOME, <<"rep-cli", "/", "live.json">>>>)
            /\ (env.REPLIVE_PATH = <<>> /\ env.XDG_DATA_HOME = <<>>) =>
                  out[1] = Join(<<env.HOME, <<".local", "/", "share", "/", "rep-cli",
                                              "/", "live.json">>>>)

\* An override below the home directory has been resolved while a data home
\* was set.
C39_Witness ==
    /\ Resolved
    /\ call[2].REPLIVE_PATH = <<"~", "/", "x">>
    /\ call[2].XDG_DATA_HOME # <<>>
    /\ call[2].HOME = <<"/", "h", "/">>
    /\ out[1] = <<"/", "h", "/", "x">>

----------------------------------------------------------------------------
(* The content hash of two requests. A field is any text: a URL or a body *)
(* may hold the "|" that RequestHash joins the fields with.               *)

HashRequests ==
    [ID : {<<>>}, Timestamp : StartTime..MaxTime,
     Method : {<<"G">>, <<"P">>}, URL : {<<"u">>, <<"u", "|", "b">>},
     Body : {<<>>, <<"b">>, <<"b", "|">>}, OriginalID : {<<>>}]

\* RequestHash on two requests.
HashPair ==
    \E a \in HashRequests, b \in HashRequests :
        /\ call = NoCall
        /\ call' = <<"hash", a, b>>
        /\ out' = <<RequestHash(a), RequestHash(b)>>
        /\ UNCHANGED <<hostVars, readVars, storeVars, before, migrations, saves,
                       chainVars, procVars>>

HashNext ==
    \/ HashPair
    \/ Tick

SpecHash == FingerprintInit /\ [][HashNext]_vars

----------------------------------------------------------------------------
(* Separation of identities: claim C40 *)

Hashed == call[1] = "hash"

\* The method, URL, body and timestamp of a request
IdentityOf(req) == <<req.Method, req.URL, req.Body, req.Timestamp>>

\* C40: two requests that differ in method, URL, body or timestamp are
\* hashed from different pre-images and so have different content hashes.
C40_HashSeparates ==
    (Hashed /\ IdentityOf(call[2]) # IdentityOf(call[3])) =>
        /\ RawOf(call[2]) # RawOf(call[3])
        /\ out[1] # out[2]

====
